---- MODULE Spec2Model ----
(***************************************************************************)
(* A model of hug's HTTP interface (hug/interface.py): the construction of *)
(* an Interface from a route and a function, and one invocation of         *)
(* HTTP.__call__ stepping through requirement checks, input gathering,     *)
(* validation, the call of the wrapped function and exception delegation.  *)
(***************************************************************************)
EXTENDS Integers, Sequences, FiniteSets, TLC

VARIABLES
    iface,             \* the HTTP Interface object (fields set by __init__)
    api,               \* the owning API: its exception-handler table
    request,           \* the transport request of this invocation
    kwargs,            \* the keyword arguments __call__ was invoked with
    response,          \* the transport response of this invocation
    pc,                \* position of the invocation inside HTTP.__call__
    exception_types,   \* local of __call__: the exception types it catches
    req_idx,           \* check_requirements: index of the next requirement
    input_parameters,  \* local of __call__: the gathered (then coerced) input
    key_idx,           \* validate: index of the next input transformation
    errors,            \* validate: the error mapping
    exception,         \* the exception in flight ("none" when there is none)
    calls,             \* the calls made to collaborators, in order
    shared,            \* concurrent invocations: the Interface and API they all use
    constructed,       \* concurrent invocations: the Interface and API as built
    frame,             \* concurrent invocations: the locals of each invocation
    router,            \* version dispatch: the versions registered for the path
    registered,        \* version dispatch: the registrations made, in order
    reached,           \* version dispatch: the request resolved last and what it reached
    subject,           \* construction: the route and function being wrapped
    outcome,           \* construction: what the construction step produced
    type_call,         \* coercion: the coercion unit and the value it is called with
    type_result        \* coercion: what the call returned or raised

\* the variables of one invocation of HTTP.__call__
call_vars == <<iface, api, request, kwargs, response, pc, exception_types, req_idx,
               input_parameters, key_idx, errors, exception, calls>>

thread_vars == <<shared, constructed, frame>>

dispatch_vars == <<router, registered, reached>>

build_vars == <<subject, outcome>>

type_vars == <<type_call, type_result>>

vars == <<call_vars, thread_vars, dispatch_vars, build_vars, type_vars>>

----------------------------------------------------------------------------
(* Bounds of the model *)

NumParams == 2      \* number of formal parameters of the wrapped function
MaxRequires == 2    \* longest sequence of requirement checks of a route
MaxHandlers == 2    \* most exception types registered in the handler table
MaxSize == 3        \* largest size in bytes of a streamed result
MaxVersion == 6     \* largest version number a request asks for
MaxRegistrations == 3   \* most registrations made on the path

----------------------------------------------------------------------------
(* Values and mappings *)

Val(kind, val) == [kind |-> kind, val |-> val]

None == Val("none", "None")
True == Val("bool", "True")
False == Val("bool", "False")

EmptyMap == [x \in {} |-> None]

Put(m, k, v) == [x \in DOMAIN m \cup {k} |-> IF x = k THEN v ELSE m[x]]

\* dict.update: the keys of m2 override those of m1
Update(m1, m2) == [x \in DOMAIN m1 \cup DOMAIN m2 |-> IF x \in DOMAIN m2 THEN m2[x] ELSE m1[x]]

Restrict(m, keys) == [x \in DOMAIN m \cap keys |-> m[x]]

Range(s) == {s[i] : i \in DOMAIN s}

\* Python's truth value of an object
Truthy(v) ==
    CASE v.kind = "none" -> FALSE
      [] v.kind = "bool" -> v.val = "True"
      [] v.kind = "str" -> v.val # ""
      [] v.kind = "int" -> v.val # "0"
      [] OTHER -> TRUE

----------------------------------------------------------------------------
(* Exceptions: the classes that occur and Python's isinstance on them *)

\* the base classes of an exception class, itself included
Bases(t) ==
    CASE t = "UnicodeError" -> {"UnicodeError", "ValueError", "Exception"}
      [] t = "ValueError" -> {"ValueError", "Exception"}
      [] t = "KeyError" -> {"KeyError", "Exception"}
      [] t = "HTTPNotFound" -> {"HTTPNotFound", "HTTPError", "Exception"}
      [] t = "HTTPError" -> {"HTTPError", "Exception"}
      [] OTHER -> {t, "Exception"}

IsInstance(exc, t) == t \in Bases(exc)

\* `except types as e`: types is a tuple of classes
Catches(types, exc) == \E t \in types : IsInstance(exc, t)

----------------------------------------------------------------------------
(* hug/types.py: the coercions used as input transformations *)

Digits == {"0", "1"}

Returned(v) == [raised |-> "none", value |-> v, message |-> ""]
Raised(t, msg) == [raised |-> t, value |-> None, message |-> msg]

\* Python's int(value)
PyInt(v) ==
    CASE v.kind = "int" -> Returned(v)
      [] v.kind = "bool" -> Returned(Val("int", IF v.val = "True" THEN "1" ELSE "0"))
      [] v.kind = "str" /\ v.val \in Digits -> Returned(Val("int", v.val))
      [] v.kind = "str" -> Raised("ValueError", "invalid literal for int()")
      [] OTHER -> Raised("TypeError", "int() argument must be a string or a number")

\* Accept.__call__ with no exception_handlers: error_text rewrites any failure
AcceptCall(converted, error_text) ==
    IF error_text # ""
    THEN IF converted.raised # "none" THEN Raised("ValueError", error_text) ELSE converted
    ELSE converted

number(v) == AcceptCall(PyInt(v), "Invalid whole number provided")

text(v) ==
    IF v.kind \in {"list", "tuple"}
    THEN Raised("ValueError", "Invalid text value provided")
    ELSE Returned(Val("str", v.val))

\* the call type_handler(value) of HTTP.validate
TypeHandler(h, v) == IF h = "number" THEN number(v) ELSE text(v)

----------------------------------------------------------------------------
(* Interface.__init__ and HTTP.__init__: the Interface built from a route   *)
(* and a function.  A route key that is not given holds "absent".          *)

ParamNames == <<"a", "b", "c", "d">>

\* self.required: the parameters without a default, less a method's receiver
RequiredOf(function) ==
    LET parameters == function.parameters
        required == SubSeq(parameters, 1, Len(parameters) - Len(function.defaults))
    IN  IF function.is_method /\ required # <<>> THEN Tail(required) ELSE required

\* self.defaults: the trailing parameters paired with __defaults__ in order
DefaultsOf(function) ==
    LET parameters == function.parameters
        first == Len(parameters) - Len(function.defaults)
    IN  [name \in {parameters[i] : i \in (first + 1)..Len(parameters)} |->
            function.defaults[(CHOOSE i \in (first + 1)..Len(parameters) : parameters[i] = name) - first]]

\* self.on_invalid: the route's on_invalid, else the transform, else not set
OnInvalidOf(route) ==
    IF route.on_invalid # "absent" THEN route.on_invalid
    ELSE IF route.transform # "absent" THEN route.transform
    ELSE "absent"

\* self.input_transformations: the annotated parameters that are no directive,
\* in the order of the annotations
RECURSIVE TransformationsOf(_, _)
TransformationsOf(parameters, annotations) ==
    IF parameters = <<>> THEN <<>>
    ELSE LET name == Head(parameters)
             rest == TransformationsOf(Tail(parameters), annotations)
         IN  IF name \in DOMAIN annotations
             THEN <<[key |-> name, type_handler |-> annotations[name]]>> \o rest
             ELSE rest

HTTP(route, function, catch) ==
    [ function |-> function,
      requires |-> route.requires,
      validate_function |-> route.validate,
      raise_on_invalid |-> route.raise_on_invalid,
      takes_kwargs |-> function.takes_kwargs,   \* the attribute as the invocations find it
      parameters |-> function.parameters,
      defaults |-> DefaultsOf(function),
      required |-> RequiredOf(function),
      outputs |-> "output_format",
      invalid_outputs |-> route.output_invalid,
      transform |-> route.transform,
      on_invalid |-> OnInvalidOf(route),
      directives |-> Range(function.parameters) \cap route.api.directives,
      input_transformations |-> TransformationsOf(function.parameters, function.annotations),
      catch_exceptions |-> catch,
      parse_body |-> route.parse_body,
      set_status |-> route.status ]

----------------------------------------------------------------------------
(* Collaborators of one invocation *)

\* the body of a response: what was serialized and the functions it went through
Data(kind, payload, via) == [kind |-> kind, payload |-> payload, via |-> via]

NoData == Data("none", None, <<>>)

\* a call made to a collaborator
LogCall(fn, name, idx, args, exc) == [fn |-> fn, name |-> name, idx |-> idx, args |-> args, exc |-> exc]

\* a whole-input validate function of a route: "accept" finds nothing wrong,
\* "reject" is a cross-field check that reports every key it was given
ValidateFunction(validate, input) ==
    IF validate = "reject"
    THEN [k \in DOMAIN input \cup {"form"} |-> "Rejected by validate"]
    ELSE EmptyMap

HTTP_BAD_REQUEST == "400 Bad Request"

----------------------------------------------------------------------------
(* HTTP.gather_parameters *)

\* a variant in which the query parameters override the decoded body
ClientInputQueryLast(interface, req, input) ==
    LET with_body == IF "body" \in Range(interface.parameters)
                     THEN Put(input, "body", IF interface.parse_body /\ req.content_length # "None"
                                             THEN req.body ELSE None)
                     ELSE input
        decoded == IF interface.parse_body /\ req.content_length # "None" /\ req.body.kind = "dict"
                   THEN Update(with_body, req.body_items) ELSE with_body
    IN  Update(decoded, req.params)

\* lines 150-171: the call's keyword arguments, then the query parameters,
\* then the decoded body
ClientInput(interface, req, input) ==
    LET merged == Update(input, req.params)
    IN  IF interface.parse_body /\ req.content_length # "None"
        THEN LET with_body == IF "body" \in Range(interface.parameters)
                              THEN Put(merged, "body", req.body) ELSE merged
             IN  IF req.body.kind = "dict" THEN Update(with_body, req.body_items) ELSE with_body
        ELSE IF "body" \in Range(interface.parameters)
             THEN Put(merged, "body", None) ELSE merged

\* lines 173-178: request, response and api_version when the function declares them
Injected(interface, req) ==
    LET names == Range(interface.parameters) \cap {"request", "response", "api_version"}
    IN  [name \in names |-> IF name = "api_version" THEN req.api_version ELSE Val(name, name)]

\* a variant that never passes the declared default to the directive
DirectiveArgumentsNone(interface, name) == <<>>

\* line 180: the declared default of the parameter, when it has one
DirectiveArguments(interface, name) ==
    IF name \in DOMAIN interface.defaults THEN <<interface.defaults[name]>> ELSE <<>>

\* lines 181-182: what the directive is called with (the request and the
\* response objects are named by their identity); the value it returns is
\* identified with the call that produced it
DirectiveValue(interface, name, req, resp) ==
    [ kind |-> "directive", val |-> name, arguments |-> DirectiveArguments(interface, name),
      request |-> req.id, response |-> resp.id, api_version |-> req.api_version ]

\* lines 179-182: every directive is evaluated with this call's context
DirectiveValues(interface, req, resp) ==
    [name \in interface.directives |-> DirectiveValue(interface, name, req, resp)]

\* the directives of the interface, one after the other
DirectiveOrder(interface) ==
    SelectSeq(interface.parameters, LAMBDA name : name \in interface.directives)

\* lines 179-182: one call of a directive for each entry of self.directives
DirectiveCalls(interface, req, resp) ==
    [i \in 1..Len(DirectiveOrder(interface)) |->
        LogCall("directive", DirectiveOrder(interface)[i], i,
                DirectiveValue(interface, DirectiveOrder(interface)[i], req, resp), "none")]

\* a variant that lets the client's input override what is injected
gather_parameters_client_last(interface, req, resp, input) ==
    Update(Update(Injected(interface, req), DirectiveValues(interface, req, resp)),
           ClientInput(interface, req, input))

\* line 163-165: decoding the body raises
BodyRaises(interface, req) ==
    IF interface.parse_body /\ req.content_length # "None" THEN req.body_error ELSE "none"

\* the positions in the order of the directives of those that raise
RaisingDirectives(interface, a) ==
    {i \in DOMAIN DirectiveOrder(interface) : DirectiveOrder(interface)[i] \in DOMAIN a.directive_raises}

\* what gather_parameters raises: the failure to decode the body, else what
\* the first raising directive raises, else nothing
GatherRaises(interface, a, req) ==
    IF BodyRaises(interface, req) # "none" THEN BodyRaises(interface, req)
    ELSE IF RaisingDirectives(interface, a) # {}
    THEN a.directive_raises[DirectiveOrder(interface)[
             CHOOSE i \in RaisingDirectives(interface, a) :
                 \A j \in RaisingDirectives(interface, a) : i <= j]]
    ELSE "none"

\* lines 179-182 when a directive raises: the directives called up to it
DirectiveCallsUntilRaise(interface, a, req, resp) ==
    IF BodyRaises(interface, req) # "none" THEN <<>>
    ELSE LET first == CHOOSE i \in RaisingDirectives(interface, a) :
                          \A j \in RaisingDirectives(interface, a) : i <= j
         IN  [i \in 1..first |->
                 LogCall("directive", DirectiveOrder(interface)[i], i,
                         DirectiveValue(interface, DirectiveOrder(interface)[i], req, resp),
                         IF i = first THEN a.directive_raises[DirectiveOrder(interface)[i]]
                         ELSE "none")]

gather_parameters(interface, req, resp, input) ==
    Update(Update(ClientInput(interface, req, input), Injected(interface, req)),
           DirectiveValues(interface, req, resp))

----------------------------------------------------------------------------
(* HTTP.validate, lines 204-209 *)

\* a variant that looks for missing parameters only when no coercion failed
RequiredErrorsIfClean(interface, input, errs) ==
    LET missing == {r \in Range(interface.required) : r \notin DOMAIN input}
    IN  IF errs = EmptyMap THEN [r \in missing |-> "Required parameter not supplied"] ELSE errs

\* the required parameters that the input lacks get the fixed message
RequiredErrors(interface, input, errs) ==
    LET missing == {r \in Range(interface.required) : r \notin DOMAIN input}
    IN  Update(errs, [r \in missing |-> "Required parameter not supplied"])

\* a variant that runs the validate function whatever failed before it
RunsValidateFunctionAlways(interface, errs) ==
    interface.validate_function # "absent"

\* the whole-input validate function runs only when nothing failed before it
RunsValidateFunction(interface, errs) ==
    errs = EmptyMap /\ interface.validate_function # "absent"

----------------------------------------------------------------------------
(* HTTP.__call__, lines 320-327: the handler for a caught exception.       *)
(* A handler is named by the exception type it was registered for.         *)

Reverse(seq) == [i \in 1..Len(seq) |-> seq[Len(seq) + 1 - i]]

\* the for loop of lines 325-327: every match assigns handler, none breaks
RECURSIVE LoopHandlers(_, _, _)
LoopHandlers(items, exc, handler) ==
    IF items = <<>> THEN handler
    ELSE LoopHandlers(Tail(items), exc, IF IsInstance(exc, Head(items)) THEN Head(items) ELSE handler)

\* a variant without the exact-type lookup of lines 322-323
SelectHandlerByLoop(table, exc) ==
    LoopHandlers(Reverse(table), exc, "None")

SelectHandler(table, exc) ==
    IF exc \in Range(table) THEN exc
    ELSE LoopHandlers(Reverse(table), exc, "None")

----------------------------------------------------------------------------
(* HTTP.__call__, one action per step of the invocation *)

\* a variant that catches the registered types whatever catch_exceptions says
ExceptionTypesAlways(interface, table) == Range(table)

\* lines 250-254: the exception types that __call__ catches
ExceptionTypes(interface, table) ==
    IF ~interface.catch_exceptions THEN {} ELSE Range(table)

\* lines 249-261: the exception types to catch, the configured status and
\* the content type of the outputs formatter
Call ==
    /\ pc = "start"
    /\ exception_types' = ExceptionTypes(iface, api.exception_handlers)
    /\ response' = [response EXCEPT
                       !.status = IF iface.set_status # "absent" THEN iface.set_status ELSE @,
                       !.content_type = iface.outputs]
    /\ req_idx' = 1
    /\ pc' = "requirements"
    /\ UNCHANGED <<thread_vars, dispatch_vars, build_vars, type_vars>>
    /\ UNCHANGED <<iface, api, request, kwargs, input_parameters, key_idx, errors, exception, calls>>

\* line 233: a requirement that raises instead of returning a conclusion
RequirementRaises(conclusion) == IF conclusion.kind = "raise" THEN conclusion.val ELSE "none"

\* the conclusions that make check_requirements return (line 234)
LacksRequirement(conclusion) ==
    RequirementRaises(conclusion) = "none" /\ Truthy(conclusion) /\ conclusion # True

\* a variant that also reports the validation-failure status
LacksRequirementExitBadRequest(interface, resp, conclusion) ==
    [resp EXCEPT !.status = "400 Bad Request",
                 !.data = Data("conclusion", conclusion, <<interface.outputs>>)]

\* lines 264-266: the value a requirement returned is sent through outputs
LacksRequirementExit(interface, resp, conclusion) ==
    [resp EXCEPT !.data = Data("conclusion", conclusion, <<interface.outputs>>)]

\* a variant whose try block begins at the call of the wrapped function
RaisedInFunctionOnly(step) == IF step = "function" THEN "raised" ELSE "propagated"

\* lines 255-317: the try block spans the requirement checks, the gathering,
\* the validation and the call, so what any of them raises reaches the
\* except clauses
RaisedIn(step) == "raised"

\* check_requirements (lines 232-235), one requirement per step, and the
\* precondition-failure exit of lines 264-266.  A requirement is given by
\* the conclusion it draws from this request, or by what it raises.
CheckRequirement ==
    /\ pc = "requirements"
    /\ req_idx <= Len(iface.requires)
    /\ LET conclusion == iface.requires[req_idx]
       IN  /\ calls' = Append(calls, LogCall("requirement", "", req_idx, EmptyMap,
                                              RequirementRaises(conclusion)))
           /\ IF RequirementRaises(conclusion) # "none"
              THEN /\ exception' = RequirementRaises(conclusion)
                   /\ pc' = RaisedIn("requirement")
                   /\ UNCHANGED <<response, req_idx>>
              ELSE IF LacksRequirement(conclusion)
              THEN /\ response' = LacksRequirementExit(iface, response, conclusion)
                   /\ pc' = "done"
                   /\ UNCHANGED <<req_idx, exception>>
              ELSE /\ req_idx' = req_idx + 1
                   /\ UNCHANGED <<response, pc, exception>>
    /\ UNCHANGED <<thread_vars, dispatch_vars, build_vars, type_vars>>
    /\ UNCHANGED <<iface, api, request, kwargs, exception_types, input_parameters, key_idx, errors>>

\* line 268: every requirement passed, the input is gathered
GatherParameters ==
    /\ pc = "requirements"
    /\ req_idx > Len(iface.requires)
    /\ IF GatherRaises(iface, api, request) = "none"
       THEN /\ input_parameters' = gather_parameters(iface, request, response, kwargs)
            /\ calls' = Append(calls, LogCall("gather_parameters", "", 0, kwargs, "none"))
                         \o DirectiveCalls(iface, request, response)
            /\ key_idx' = 1
            /\ errors' = EmptyMap
            /\ pc' = "validate"
            /\ UNCHANGED exception
       ELSE /\ exception' = GatherRaises(iface, api, request)
            /\ calls' = Append(calls, LogCall("gather_parameters", "", 0, kwargs,
                                              GatherRaises(iface, api, request)))
                         \o DirectiveCallsUntilRaise(iface, api, request, response)
            /\ pc' = RaisedIn("gather_parameters")
            /\ UNCHANGED <<input_parameters, key_idx, errors>>
    /\ UNCHANGED <<thread_vars, dispatch_vars, build_vars, type_vars>>
    /\ UNCHANGED <<iface, api, request, kwargs, response, exception_types, req_idx>>

\* a variant that records every failure, whatever the route asks for
NeverRaisesOnInvalid(interface) == FALSE

\* line 189: a failed coercion propagates instead of being recorded
RaisesOnInvalid(interface) == interface.raise_on_invalid

\* a variant that starts a fresh mapping for every failure
RecordErrorAlone(errs, key, message) == [k \in {key} |-> message]

\* lines 196-202: the failure of one parameter joins the error mapping
RecordError(errs, key, message) == Put(errs, key, message)

\* validate, lines 188-202: one input transformation per step
Coerce ==
    /\ pc = "validate"
    /\ key_idx <= Len(iface.input_transformations)
    /\ LET key == iface.input_transformations[key_idx].key
           type_handler == iface.input_transformations[key_idx].type_handler
       IN  IF key \in DOMAIN input_parameters
           THEN LET result == TypeHandler(type_handler, input_parameters[key])
                IN  /\ calls' = Append(calls, LogCall("type_handler", key, key_idx, EmptyMap, result.raised))
                    /\ IF result.raised = "none"
                       THEN /\ input_parameters' = Put(input_parameters, key, result.value)
                            /\ key_idx' = key_idx + 1
                            /\ UNCHANGED <<errors, exception, pc>>
                       ELSE IF RaisesOnInvalid(iface)
                       THEN /\ exception' = result.raised
                            /\ pc' = RaisedIn("validate")
                            /\ UNCHANGED <<input_parameters, key_idx, errors>>
                       ELSE /\ errors' = RecordError(errors, key, result.message)
                            /\ key_idx' = key_idx + 1
                            /\ UNCHANGED <<input_parameters, exception, pc>>
           ELSE /\ key_idx' = key_idx + 1
                /\ UNCHANGED <<input_parameters, errors, exception, pc, calls>>
    /\ UNCHANGED <<thread_vars, dispatch_vars, build_vars, type_vars>>
    /\ UNCHANGED <<iface, api, request, kwargs, response, exception_types, req_idx>>

\* validate, lines 204-209: the required parameters, then the validate function
CheckRequired ==
    /\ pc = "validate"
    /\ key_idx > Len(iface.input_transformations)
    /\ LET found == RequiredErrors(iface, input_parameters, errors)
       IN  IF RunsValidateFunction(iface, found)
           THEN /\ errors' = ValidateFunction(iface.validate_function, input_parameters)
                /\ calls' = Append(calls, LogCall("validate_function", iface.validate_function, 0,
                                                  input_parameters, "none"))
           ELSE /\ errors' = found
                /\ UNCHANGED calls
    /\ pc' = "validated"
    /\ UNCHANGED <<thread_vars, dispatch_vars, build_vars, type_vars>>
    /\ UNCHANGED <<iface, api, request, kwargs, response, exception_types, req_idx,
                   input_parameters, key_idx, exception>>

\* a variant that never switches to the invalid-output formatter
InvalidPipelineOutputs(interface) ==
    (IF interface.on_invalid # "absent" THEN <<interface.on_invalid>> ELSE <<>>)
    \o <<interface.outputs>>

\* lines 271-273 and 276-281: the functions the errors go through
InvalidPipeline(interface) ==
    (IF interface.on_invalid # "absent" THEN <<interface.on_invalid>> ELSE <<>>)
    \o <<IF interface.invalid_outputs # "absent" THEN interface.invalid_outputs ELSE interface.outputs>>

\* lines 270-282: the validation-failure exit
InvalidExit ==
    /\ pc = "validated"
    /\ errors # EmptyMap
    /\ response' = [response EXCEPT
                       !.status = HTTP_BAD_REQUEST,
                       !.content_type = IF iface.invalid_outputs # "absent"
                                        THEN iface.invalid_outputs ELSE @,
                       !.data = Data("errors", errors, InvalidPipeline(iface))]
    /\ pc' = "done"
    /\ UNCHANGED <<thread_vars, dispatch_vars, build_vars, type_vars>>
    /\ UNCHANGED <<iface, api, request, kwargs, exception_types, req_idx, input_parameters,
                   key_idx, errors, exception, calls>>

\* lines 284-285: the keys the wrapped function is called with
FunctionArguments(interface, input) ==
    IF ~interface.takes_kwargs THEN Restrict(input, Range(interface.parameters)) ELSE input

\* transform_data (lines 211-217) and the outputs formatter (line 296)
OutputPipeline(interface) ==
    (IF interface.transform # "absent" THEN <<interface.transform>> ELSE <<>>) \o <<interface.outputs>>

\* lines 301-305: the last byte served, after a negative end is counted
\* from the end of the stream and the end is capped by the size
RangeEnd(range, size) ==
    LET end == IF range[2] < 0 THEN size + range[2] ELSE range[2]
    IN  IF end < size THEN end ELSE size

\* a variant that forgets the byte at the end position
RangeLengthExclusive(range, size) == RangeEnd(range, size) - range[1]

\* line 306: the number of bytes asked of the stream
RangeLength(range, size) == RangeEnd(range, size) - range[1] + 1

\* data.read(n) at a position of a stream of size bytes: the number of bytes
\* it returns (all that remain when n is negative)
Read(size, position, n) ==
    LET remaining == IF size > position THEN size - position ELSE 0
    IN  IF n < 0 \/ n > remaining THEN remaining ELSE n

\* line 301: a range was requested and the size of the stream is known; a
\* size of 0 stands for a stream with no file behind it and for an empty file
ServesRange(req, size) == req.range # <<>> /\ size # 0

\* lines 306-311: what is done to the stream when a range is served
StreamCalls(req, size) ==
    IF ServesRange(req, size)
    THEN << LogCall("seek", "", req.range[1], EmptyMap, "none"),
            LogCall("read", "", RangeLength(req.range, size), EmptyMap, "none"),
            LogCall("close", "", 0, EmptyMap, "none") >>
    ELSE <<>>

\* lines 297-315: the response for a result that is a readable stream
StreamResponse(interface, resp, req, size) ==
    IF ServesRange(req, size)
    THEN [resp EXCEPT
             !.data = Data("bytes",
                           [offset |-> req.range[1],
                            count |-> Read(size, req.range[1], RangeLength(req.range, size))],
                           OutputPipeline(interface)),
             !.status = "206 Partial Content",
             !.content_range = <<req.range[1], RangeEnd(req.range, size), size>>]
    ELSE [resp EXCEPT !.stream = OutputPipeline(interface), !.stream_len = size]

\* a variant that forwards none of the keyword arguments
ChainedCallsBare(interface, kw) ==
    IF interface.function.returns = "interface"
    THEN <<LogCall("interface", "", 0, EmptyMap, "none")>>
    ELSE <<>>

\* lines 288-293: a result that is itself an interface is invoked with the
\* same request and response and the original keyword arguments
ChainedCalls(interface, kw) ==
    IF interface.function.returns = "interface"
    THEN <<LogCall("interface", "", 0, kw, "none")>>
    ELSE <<>>

\* lines 284-317: the wrapped function is called and its result sent
CallFunction ==
    /\ pc = "validated"
    /\ errors = EmptyMap
    /\ LET called == LogCall("function", "", 0, FunctionArguments(iface, input_parameters),
                             iface.function.raises)
       IN  IF iface.function.raises # "none"
           THEN /\ calls' = Append(calls, called)
                /\ exception' = iface.function.raises
                /\ pc' = RaisedIn("function")
                /\ UNCHANGED response
           ELSE IF iface.function.returns = "interface"
           THEN /\ calls' = Append(calls, called) \o ChainedCalls(iface, kwargs)
                /\ pc' = "done"
                /\ UNCHANGED <<response, exception>>
           ELSE IF iface.function.returns = "stream"
           THEN /\ calls' = Append(calls, called) \o StreamCalls(request, iface.function.size)
                /\ response' = StreamResponse(iface, response, request, iface.function.size)
                /\ pc' = "done"
                /\ UNCHANGED exception
           ELSE /\ calls' = Append(calls, called)
                /\ response' = [response EXCEPT
                                   !.data = Data("result", Val("str", "result"), OutputPipeline(iface))]
                /\ pc' = "done"
                /\ UNCHANGED exception
    /\ UNCHANGED <<thread_vars, dispatch_vars, build_vars, type_vars>>
    /\ UNCHANGED <<iface, api, request, kwargs, exception_types, req_idx, input_parameters,
                   key_idx, errors>>

\* a variant with the two except clauses in the other order
ExceptClauseTableFirst(types, exc) ==
    IF Catches(types, exc) THEN "exception_types"
    ELSE IF IsInstance(exc, "HTTPNotFound") THEN "HTTPNotFound"
    ELSE "none"

\* lines 318 and 320: the first except clause that matches the exception
ExceptClause(types, exc) ==
    IF IsInstance(exc, "HTTPNotFound") THEN "HTTPNotFound"
    ELSE IF Catches(types, exc) THEN "exception_types"
    ELSE "none"

\* lines 318-328: the except clauses of __call__, in their order
HandleException ==
    /\ pc = "raised"
    /\ IF ExceptClause(exception_types, exception) = "HTTPNotFound"
       THEN /\ calls' = Append(calls, LogCall("not_found", "", 0, kwargs, exception))
            /\ pc' = "done"
       ELSE IF ExceptClause(exception_types, exception) = "exception_types"
       THEN /\ calls' = Append(calls, LogCall("exception_handler",
                                              SelectHandler(api.exception_handlers, exception),
                                              0, kwargs, exception))
            /\ pc' = "done"
       ELSE /\ pc' = "propagated"
            /\ UNCHANGED calls
    /\ UNCHANGED <<thread_vars, dispatch_vars, build_vars, type_vars>>
    /\ UNCHANGED <<iface, api, request, kwargs, response, exception_types, req_idx,
                   input_parameters, key_idx, errors, exception>>

Next ==
    \/ Call
    \/ CheckRequirement
    \/ GatherParameters
    \/ Coerce
    \/ CheckRequired
    \/ InvalidExit
    \/ CallFunction
    \/ HandleException

----------------------------------------------------------------------------
(* The invocations checked.  Each family varies the configuration that one  *)
(* group of steps reads and keeps the rest at the base values.              *)

Parameters == SubSeq(ParamNames, 1, NumParams)

RawValues == {Val("str", "1"), Val("str", "x")}

Maps(keys, values) == UNION {[d -> values] : d \in SUBSET keys}

SeqsUpTo(S, n) == UNION {[1..k -> S] : k \in 0..n}

Annotations == Maps(Range(Parameters), {"number", "text"})

AllNumbers == [name \in Range(Parameters) |-> "number"]

DefaultSeqs == {[i \in 1..n |-> Val("str", "default")] : n \in 0..NumParams}

Conclusions == {True, False, None, Val("str", "Unauthorized")}

RaisedTypes == {"ValueError", "UnicodeError", "KeyError", "HTTPNotFound"}

RegisteredTypes == {"Exception", "ValueError", "KeyError", "HTTPError", "HTTPNotFound"}

\* the exception-handler table of the request's version: the registered
\* exception types in registration order, each with its own handler
HandlerTables ==
    {t \in SeqsUpTo(RegisteredTypes, MaxHandlers) : \A i, j \in DOMAIN t : i # j => t[i] # t[j]}

\* directive_raises: the directives that raise, each with what it raises
BaseAPI == [directives |-> {}, exception_handlers |-> <<>>, directive_raises |-> EmptyMap]

BaseRoute ==
    [ requires |-> <<>>, validate |-> "absent", raise_on_invalid |-> FALSE, status |-> "absent",
      transform |-> "absent", on_invalid |-> "absent", output_invalid |-> "absent",
      parse_body |-> FALSE, api |-> BaseAPI ]

BaseFunction ==
    [ parameters |-> Parameters, defaults |-> <<>>, is_method |-> FALSE, annotations |-> EmptyMap,
      takes_kwargs |-> FALSE, raises |-> "none", returns |-> "value", size |-> 0 ]

BaseRequest ==
    [ params |-> EmptyMap, content_length |-> "None", body |-> None, body_items |-> EmptyMap,
      body_error |-> "none", api_version |-> None, range |-> <<>>, id |-> 0 ]

\* a response nothing was assigned to: no body, no stream, no content range
NewResponse ==
    [ status |-> "200 OK", content_type |-> "none", data |-> NoData,
      stream |-> <<>>, stream_len |-> 0, content_range |-> <<>>, id |-> 0 ]

\* the variables of the other specifications, at rest
NoCall ==
    /\ iface = "none" /\ api = "none" /\ request = "none" /\ kwargs = EmptyMap
    /\ response = "none" /\ pc = "none" /\ exception_types = {} /\ req_idx = 0
    /\ input_parameters = EmptyMap /\ key_idx = 0 /\ errors = EmptyMap
    /\ exception = "none" /\ calls = <<>>

NoThreads == shared = "none" /\ constructed = "none" /\ frame = <<>>

NoDispatch == router = <<>> /\ registered = <<>> /\ reached = <<>>

NoConstruction == subject = "none" /\ outcome = "none"

NoCoercion == type_call = <<>> /\ type_result = <<>>

\* the state in which HTTP.__call__ is entered
Invoke(route, function, catch, req, kw) ==
    /\ iface = HTTP(route, function, catch)
    /\ api = route.api
    /\ request = req
    /\ kwargs = kw
    /\ response = NewResponse
    /\ pc = "start"
    /\ exception_types = {}
    /\ req_idx = 0
    /\ input_parameters = EmptyMap
    /\ key_idx = 0
    /\ errors = EmptyMap
    /\ exception = "none"
    /\ calls = <<>>
    /\ NoThreads
    /\ NoDispatch
    /\ NoConstruction
    /\ NoCoercion

\* coercion, required parameters and the validate function
ValidationInvocations ==
    \E raise \in BOOLEAN, validate \in {"absent", "accept", "reject"},
       annotations \in Annotations, defaults \in DefaultSeqs,
       params \in Maps(Range(Parameters), RawValues) :
        Invoke([BaseRoute EXCEPT !.raise_on_invalid = raise, !.validate = validate],
               [BaseFunction EXCEPT !.annotations = annotations, !.defaults = defaults],
               TRUE,
               [BaseRequest EXCEPT !.params = params],
               EmptyMap)

\* the status, the transform, on_invalid and the formatters of the route
ExitInvocations ==
    \E status \in {"absent", "201 Created", HTTP_BAD_REQUEST}, transform \in {"absent", "transform"},
       on_invalid \in {"absent", "on_invalid"}, output_invalid \in {"absent", "output_invalid"},
       validate \in {"absent", "reject"},
       requires \in {<<>>, <<Val("str", "Unauthorized")>>},
       annotations \in {EmptyMap, AllNumbers}, defaults \in DefaultSeqs,
       params \in Maps(Range(Parameters), RawValues) :
        Invoke([BaseRoute EXCEPT !.status = status, !.transform = transform,
                                 !.on_invalid = on_invalid, !.output_invalid = output_invalid,
                                 !.validate = validate, !.requires = requires],
               [BaseFunction EXCEPT !.annotations = annotations, !.defaults = defaults],
               TRUE,
               [BaseRequest EXCEPT !.params = params],
               EmptyMap)

\* the requirement checks of the route
RequirementInvocations ==
    \E requires \in SeqsUpTo(Conclusions, MaxRequires), status \in {"absent", "201 Created"},
       defaults \in DefaultSeqs, raises \in {"none", "ValueError"},
       params \in {EmptyMap, [name \in Range(Parameters) |-> Val("str", "1")],
                   [name \in Range(Parameters) |-> Val("str", "x")]} :
        Invoke([BaseRoute EXCEPT !.requires = requires, !.status = status],
               [BaseFunction EXCEPT !.annotations = AllNumbers, !.defaults = defaults,
                                    !.raises = raises],
               TRUE,
               [BaseRequest EXCEPT !.params = params],
               EmptyMap)

\* the exceptions raised and the exception-handler table
ExceptionInvocations ==
    \E raise \in BOOLEAN, table \in HandlerTables, raises \in RaisedTypes \cup {"none"},
       catch \in BOOLEAN,
       params \in Maps({ParamNames[NumParams]}, RawValues),
       kw \in Maps({ParamNames[1]}, RawValues) :
        Invoke([BaseRoute EXCEPT !.raise_on_invalid = raise,
                                 !.api = [BaseAPI EXCEPT !.exception_handlers = table]],
               [BaseFunction EXCEPT !.annotations = AllNumbers,
                                    !.defaults = [i \in 1..NumParams |-> Val("str", "default")],
                                    !.raises = raises],
               catch,
               [BaseRequest EXCEPT !.params = params],
               kw)

\* the byte ranges a request may ask for
Ranges == {<<>>} \cup {<<start, end>> : start \in 0..MaxSize, end \in (0 - MaxSize)..(MaxSize + 1)}

\* results that are streams or interfaces, and the keys the function receives
ResultInvocations ==
    \E returns \in {"value", "stream", "interface"}, size \in 0..MaxSize, range \in Ranges,
       transform \in {"absent", "transform"}, takes \in BOOLEAN,
       kw \in Maps({ParamNames[1], "extra"}, {Val("str", "1")}),
       params \in Maps({"more"}, {Val("str", "1")}) :
        Invoke([BaseRoute EXCEPT !.transform = transform],
               [BaseFunction EXCEPT !.returns = returns, !.size = size, !.takes_kwargs = takes,
                                    !.defaults = [i \in 1..NumParams |-> Val("str", "default")]],
               TRUE,
               [BaseRequest EXCEPT !.range = range, !.params = params],
               kw)

\* the directives the API defines and the defaults of their parameters
DirectiveInvocations ==
    \E directives \in SUBSET {ParamNames[1], ParamNames[NumParams], "hug_timer"},
       defaults \in DefaultSeqs, version \in {None, Val("int", "1")},
       requires \in {<<>>, <<Val("str", "Unauthorized")>>},
       params \in Maps({ParamNames[1]}, RawValues) :
        Invoke([BaseRoute EXCEPT !.api = [BaseAPI EXCEPT !.directives = directives],
                                 !.requires = requires],
               [BaseFunction EXCEPT !.defaults = defaults],
               TRUE,
               [BaseRequest EXCEPT !.params = params, !.api_version = version],
               EmptyMap)

\* the decoded bodies of a request: raw text, or a mapping with its items
Bodies ==
    {[body |-> Val("str", "raw"), body_items |-> EmptyMap]}
    \cup {[body |-> Val("dict", items), body_items |-> items] :
             items \in Maps({ParamNames[1], "body", "request"}, {Val("str", "from body")})}

\* the same keys supplied by the body, the query string and the keyword
\* arguments, to functions that declare body, request, response or
\* api_version, with and without a directive
GatherInvocations ==
    \E parameters \in {<<"request", ParamNames[1]>>, <<ParamNames[1], "body">>,
                        <<"response", "api_version">>, <<ParamNames[1], ParamNames[2]>>},
       directives \in SUBSET {ParamNames[1]},
       parsing \in {<<TRUE, "10">>, <<TRUE, "None">>, <<FALSE, "10">>},
       decoded \in Bodies,
       params \in Maps({ParamNames[1], "body", "request"}, {Val("str", "from query")}),
       kw \in Maps({ParamNames[1]}, {Val("str", "from path")}) :
        Invoke([BaseRoute EXCEPT !.api = [BaseAPI EXCEPT !.directives = directives],
                                 !.parse_body = parsing[1]],
               [BaseFunction EXCEPT !.parameters = parameters,
                                    !.defaults = <<Val("str", "default"), Val("str", "default")>>],
               TRUE,
               [BaseRequest EXCEPT !.params = params, !.content_length = parsing[2],
                                   !.body = decoded.body, !.body_items = decoded.body_items,
                                   !.api_version = Val("int", "1")],
               kw)

\* exceptions raised before the wrapped function is reached: by a
\* requirement, by decoding the body, by a directive
EarlyExceptionInvocations ==
    \E step \in {"requirement", "body", "directive"}, raised \in RaisedTypes,
       table \in HandlerTables, catch \in BOOLEAN :
        Invoke([BaseRoute EXCEPT
                   !.requires = IF step = "requirement" THEN <<True, Val("raise", raised)>> ELSE <<True>>,
                   !.parse_body = TRUE,
                   !.api = [BaseAPI EXCEPT
                               !.exception_handlers = table,
                               !.directives = {ParamNames[1], ParamNames[NumParams]},
                               !.directive_raises =
                                   IF step = "directive"
                                   THEN [name \in {ParamNames[NumParams]} |-> raised]
                                   ELSE EmptyMap]],
               [BaseFunction EXCEPT !.defaults = [i \in 1..NumParams |-> Val("str", "default")]],
               catch,
               [BaseRequest EXCEPT !.content_length = "10",
                                   !.body_error = IF step = "body" THEN raised ELSE "none"],
               EmptyMap)

Init ==
    \/ EarlyExceptionInvocations
    \/ GatherInvocations
    \/ DirectiveInvocations
    \/ ValidationInvocations
    \/ ExitInvocations
    \/ RequirementInvocations
    \/ ExceptionInvocations
    \/ ResultInvocations

Spec == Init /\ [][Next]_vars

----------------------------------------------------------------------------
(* Concurrent invocations of one Interface.  Each invocation has its own   *)
(* frame (the arguments and locals of HTTP.__call__); the Interface and    *)
(* the API are the objects every invocation reads.  An invocation takes    *)
(* one step at each of the places where __call__ reads the Interface.      *)

\* the two invocations; each is the identity of its request and response
Threads == {1, 2}

Terminal == {"done", "propagated"}

\* the arguments and locals of __call__ on entry (line 248)
NewFrame(req, kw, id) ==
    [ request |-> [req EXCEPT !.id = id], kwargs |-> kw,
      response |-> [NewResponse EXCEPT !.id = id], pc |-> "start",
      exception_types |-> {}, input_parameters |-> EmptyMap, errors |-> EmptyMap,
      exception |-> "none", calls |-> <<>> ]

\* check_requirements, lines 231-235: the first conclusion that is truthy and
\* not True, or None
RECURSIVE check_requirements(_)
check_requirements(requires) ==
    IF requires = <<>> THEN None
    ELSE IF LacksRequirement(Head(requires)) THEN Head(requires)
    ELSE check_requirements(Tail(requires))

\* the loop of validate, lines 188-202, from the i-th input transformation on
RECURSIVE CoerceFrom(_, _, _, _)
CoerceFrom(interface, i, input, errs) ==
    IF i > Len(interface.input_transformations)
    THEN [input |-> input, errors |-> errs, raised |-> "none"]
    ELSE LET key == interface.input_transformations[i].key
             result == TypeHandler(interface.input_transformations[i].type_handler, input[key])
         IN  IF key \notin DOMAIN input THEN CoerceFrom(interface, i + 1, input, errs)
             ELSE IF result.raised = "none"
             THEN CoerceFrom(interface, i + 1, Put(input, key, result.value), errs)
             ELSE IF RaisesOnInvalid(interface)
             THEN [input |-> input, errors |-> errs, raised |-> result.raised]
             ELSE CoerceFrom(interface, i + 1, input, RecordError(errs, key, result.message))

\* validate, lines 186-209: the coerced input and the errors, or the
\* exception a type handler raised
validate(interface, input) ==
    LET coerced == CoerceFrom(interface, 1, input, EmptyMap)
        found == RequiredErrors(interface, coerced.input, coerced.errors)
    IN  IF coerced.raised # "none" THEN coerced
        ELSE [coerced EXCEPT !.errors = IF RunsValidateFunction(interface, found)
                                        THEN ValidateFunction(interface.validate_function,
                                                              coerced.input)
                                        ELSE found]

\* lines 249-261 of __call__ in a frame
Entered(interface, a, f) ==
    [f EXCEPT !.exception_types = ExceptionTypes(interface, a.exception_handlers),
              !.response = [@ EXCEPT
                               !.status = IF interface.set_status # "absent"
                                          THEN interface.set_status ELSE @,
                               !.content_type = interface.outputs],
              !.pc = "requirements"]

\* lines 262-266 of __call__ in a frame
Required(interface, f) ==
    LET lacks_requirement == check_requirements(interface.requires)
    IN  IF Truthy(lacks_requirement)
        THEN [f EXCEPT !.response = LacksRequirementExit(interface, @, lacks_requirement),
                       !.pc = "done"]
        ELSE [f EXCEPT !.pc = "gather"]

\* line 268 of __call__ in a frame
GatheredIn(interface, f) ==
    [f EXCEPT !.input_parameters = gather_parameters(interface, f.request, f.response, f.kwargs),
              !.calls = @ \o DirectiveCalls(interface, f.request, f.response),
              !.pc = "validate"]

\* line 269 of __call__ in a frame
Validated(interface, f) ==
    LET result == validate(interface, f.input_parameters)
    IN  IF result.raised # "none"
        THEN [f EXCEPT !.exception = result.raised, !.pc = "raised"]
        ELSE [f EXCEPT !.input_parameters = result.input, !.errors = result.errors,
                       !.pc = "validated"]

\* lines 270-317 of __call__ in a frame
Responded(interface, f) ==
    LET called == LogCall("function", "", 0, FunctionArguments(interface, f.input_parameters),
                          interface.function.raises)
    IN  IF f.errors # EmptyMap
        THEN [f EXCEPT !.response = [@ EXCEPT
                           !.status = HTTP_BAD_REQUEST,
                           !.content_type = IF interface.invalid_outputs # "absent"
                                            THEN interface.invalid_outputs ELSE @,
                           !.data = Data("errors", f.errors, InvalidPipeline(interface))],
                       !.pc = "done"]
        ELSE IF interface.function.raises # "none"
        THEN [f EXCEPT !.calls = Append(@, called), !.exception = interface.function.raises,
                       !.pc = "raised"]
        ELSE IF interface.function.returns = "interface"
        THEN [f EXCEPT !.calls = Append(@, called) \o ChainedCalls(interface, f.kwargs),
                       !.pc = "done"]
        ELSE IF interface.function.returns = "stream"
        THEN [f EXCEPT !.calls = Append(@, called)
                                 \o StreamCalls(f.request, interface.function.size),
                       !.response = StreamResponse(interface, @, f.request,
                                                   interface.function.size),
                       !.pc = "done"]
        ELSE [f EXCEPT !.calls = Append(@, called),
                       !.response = [@ EXCEPT !.data = Data("result", Val("str", "result"),
                                                            OutputPipeline(interface))],
                       !.pc = "done"]

\* lines 318-328 of __call__ in a frame
Handled(interface, a, f) ==
    IF ExceptClause(f.exception_types, f.exception) = "HTTPNotFound"
    THEN [f EXCEPT !.calls = Append(@, LogCall("not_found", "", 0, f.kwargs, f.exception)),
                   !.pc = "done"]
    ELSE IF ExceptClause(f.exception_types, f.exception) = "exception_types"
    THEN [f EXCEPT !.calls = Append(@, LogCall("exception_handler",
                                               SelectHandler(a.exception_handlers, f.exception),
                                               0, f.kwargs, f.exception)),
                   !.pc = "done"]
    ELSE [f EXCEPT !.pc = "propagated"]

\* one step of __call__ in a frame, reading the Interface and the API
StepOf(interface, a, f) ==
    CASE f.pc = "start" -> Entered(interface, a, f)
      [] f.pc = "requirements" -> Required(interface, f)
      [] f.pc = "gather" -> GatheredIn(interface, f)
      [] f.pc = "validate" -> Validated(interface, f)
      [] f.pc = "validated" -> Responded(interface, f)
      [] f.pc = "raised" -> Handled(interface, a, f)

\* a variant that forgets the required parameters once the input is gathered
InterfaceAfterForgetting(interface, f) ==
    IF f.pc = "gather" THEN [interface EXCEPT !.required = <<>>] ELSE interface

\* the Interface after a step of an invocation: no line of gather_parameters,
\* validate, transform_data, check_requirements or __call__ assigns to an
\* attribute of self or changes one of its containers
InterfaceAfter(interface, f) == interface

\* an invocation run from a frame to its end with no other invocation
RECURSIVE RunAlone(_, _, _)
RunAlone(interface, a, f) ==
    IF f.pc \in Terminal THEN f
    ELSE RunAlone(InterfaceAfter(interface, f), a, StepOf(interface, a, f))

\* one step of one of the invocations
Step(t) ==
    /\ t \in DOMAIN frame
    /\ frame[t].pc \notin Terminal
    /\ frame' = [frame EXCEPT ![t] = StepOf(shared.iface, shared.api, frame[t])]
    /\ shared' = [shared EXCEPT !.iface = InterfaceAfter(shared.iface, frame[t])]
    /\ UNCHANGED <<constructed, call_vars, dispatch_vars, build_vars, type_vars>>

ThreadsNext == \E t \in Threads : Step(t)

\* the requests of the concurrent invocations
ThreadRequests ==
    {[BaseRequest EXCEPT !.params = params, !.api_version = version] :
        params \in {EmptyMap, [name \in Range(Parameters) |-> Val("str", "1")],
                    [name \in {ParamNames[1]} |-> Val("str", "x")]},
        version \in {None, Val("int", "1")}}

\* two invocations of one Interface enter __call__
ThreadsInit ==
    /\ \E annotations \in {EmptyMap, AllNumbers}, defaults \in DefaultSeqs,
          directives \in SUBSET {ParamNames[NumParams]},
          requires \in {<<>>, <<False, Val("str", "Unauthorized")>>},
          raises \in {"none", "ValueError"}, table \in {<<>>, <<"ValueError">>} :
           LET route == [BaseRoute EXCEPT
                            !.requires = requires,
                            !.api = [directives |-> directives, exception_handlers |-> table]]
               function == [BaseFunction EXCEPT !.annotations = annotations,
                                                !.defaults = defaults, !.raises = raises]
           IN  /\ constructed = [iface |-> HTTP(route, function, TRUE), api |-> route.api]
               /\ shared = constructed
    /\ \E requests \in [Threads -> ThreadRequests] :
           frame = [t \in Threads |-> NewFrame(requests[t], EmptyMap, t)]
    /\ NoCall
    /\ NoDispatch
    /\ NoConstruction
    /\ NoCoercion

SpecThreads == ThreadsInit /\ [][ThreadsNext]_vars

----------------------------------------------------------------------------
(* Construction: what introspection reports of the wrapped function and    *)
(* what Interface.__init__ derives from it.  The invocations above take    *)
(* the attributes of the Interface as they find them; here the functions   *)
(* that compute them are applied to a function and a route.                *)

\* the names bound at the top level of hug/introspect.py
IntrospectGlobals ==
    {"arguments", "takes_kwargs", "takes_kargs", "takes_arguments", "takes_all_arguments"}

\* the value of a name read in a function body of hug/introspect.py: a local,
\* else a global of the module, else NameError
Name(name, locals) ==
    IF name \in DOMAIN locals THEN Returned(locals[name])
    ELSE IF name \in IntrospectGlobals THEN Returned(Val("function", name))
    ELSE Raised("NameError", name)

\* introspect.takes_kwargs, lines 28-30: the flag is read from the name
\* api_function while the parameter is called function
takes_kwargs(function) ==
    LET api_function == Name("api_function", [function |-> function])
    IN  IF api_function.raised # "none" THEN api_function
        ELSE Returned(api_function.value.takes_kwargs)

\* introspect.takes_kwargs is applied to the wrapped function (line 50)
Introspect ==
    /\ outcome.step = "none"
    /\ outcome' = [step |-> "takes_kwargs", result |-> takes_kwargs(subject.function)]
    /\ UNCHANGED <<subject, call_vars, thread_vars, dispatch_vars, type_vars>>

\* the parameters, defaults, required set and directives are derived from
\* the wrapped function and the route (lines 52-63 and 86-88)
Construct ==
    /\ outcome.step = "none"
    /\ outcome' = [step |-> "construct",
                   interface |-> HTTP(subject.route, subject.function, TRUE)]
    /\ UNCHANGED <<subject, call_vars, thread_vars, dispatch_vars, type_vars>>

BuildNext == Introspect \/ Construct

\* the functions wrapped: plain functions and bound methods, with their
\* trailing defaults
WrappedFunctions ==
    UNION {{[BaseFunction EXCEPT
                !.parameters = (IF method THEN <<"self">> ELSE <<>>) \o SubSeq(ParamNames, 1, n),
                !.defaults = [i \in 1..d |-> Val("str", ParamNames[n - d + i])],
                !.is_method = method, !.takes_kwargs = takes] :
            method \in BOOLEAN, takes \in BOOLEAN, d \in 0..n} : n \in 0..NumParams}

BuildInit ==
    /\ \E function \in WrappedFunctions,
          directives \in SUBSET {ParamNames[1], ParamNames[NumParams]},
          input \in Maps({ParamNames[1], "extra"}, {Val("str", "1")}) :
           subject = [route |-> [BaseRoute EXCEPT !.api = [BaseAPI EXCEPT !.directives = directives]],
                      function |-> function, input |-> input]
    /\ outcome = [step |-> "none"]
    /\ NoCall
    /\ NoThreads
    /\ NoDispatch
    /\ NoCoercion

SpecBuild == BuildInit /\ [][BuildNext]_vars

----------------------------------------------------------------------------
(* Version dispatch for one path and method: register(versionSpec,         *)
(* interface) and resolve(requestedVersion).  The router keeps one         *)
(* Interface per version number and one for no version; an Interface is    *)
(* named by the number of the registration that built it.                  *)

\* the version specs a route is declared with: versions=1, range(2, 5),
\* '6' and None
Single(n) == [kind |-> "int", lo |-> n, hi |-> n + 1, text |-> ""]
RangeOf(lo, hi) == [kind |-> "range", lo |-> lo, hi |-> hi, text |-> ""]
Text(digit) == [kind |-> "str", lo |-> 0, hi |-> 0, text |-> digit]
Unversioned == [kind |-> "none", lo |-> 0, hi |-> 0, text |-> ""]

DigitText == <<"1", "2", "3", "4", "5", "6", "7", "8", "9">>

\* int(text) for the text of one digit
IntOfText(digit) == CHOOSE n \in DOMAIN DigitText : DigitText[n] = digit

\* a variant that takes the end of a range for one of its versions
VersionsOfInclusive(spec) ==
    CASE spec.kind = "int" -> {spec.lo}
      [] spec.kind = "range" -> spec.lo..spec.hi
      [] spec.kind = "str" -> {IntOfText(spec.text)}
      [] spec.kind = "none" -> {}

\* the version numbers a spec contains: the number itself, the numbers of a
\* range up to its end, the number a text stands for, none for no version
VersionsOf(spec) ==
    CASE spec.kind = "int" -> {spec.lo}
      [] spec.kind = "range" -> spec.lo..(spec.hi - 1)
      [] spec.kind = "str" -> {IntOfText(spec.text)}
      [] spec.kind = "none" -> {}

NotFound == 0

\* a variant in which the first registration of a version keeps it
EntriesKept(versions, spec, interface) ==
    Update([n \in VersionsOf(spec) |-> interface], versions)

\* the entries after a registration: every version of the spec is given to
\* the new Interface, the other versions keep theirs
Entries(versions, spec, interface) ==
    Update(versions, [n \in VersionsOf(spec) |-> interface])

\* a variant with no fallback to the unversioned Interface
resolveExactly(table, req) ==
    IF req.versioned
    THEN IF req.number \in DOMAIN table.versions THEN table.versions[req.number] ELSE NotFound
    ELSE table.unversioned

\* resolve: the entry of the requested version, else the unversioned entry,
\* else not found for that version
resolve(table, req) ==
    IF req.versioned /\ req.number \in DOMAIN table.versions
    THEN table.versions[req.number]
    ELSE table.unversioned

\* register(versionSpec, interface)
Register(spec) ==
    /\ Len(registered) < MaxRegistrations
    /\ registered' = Append(registered, spec)
    /\ router' = IF spec.kind = "none"
                 THEN [router EXCEPT !.unversioned = Len(registered) + 1]
                 ELSE [router EXCEPT !.versions = Entries(@, spec, Len(registered) + 1)]
    /\ reached' = <<>>
    /\ UNCHANGED <<call_vars, thread_vars, build_vars, type_vars>>

\* resolve(requestedVersion) for a request that arrives
Resolve(req) ==
    /\ reached' = <<[request |-> req, interface |-> resolve(router, req)]>>
    /\ UNCHANGED <<router, registered, call_vars, thread_vars, build_vars, type_vars>>

VersionSpecs ==
    {Single(1), Single(2), RangeOf(2, 5), RangeOf(1, 3), Text("6"), Text(DigitText[MaxVersion]),
     Unversioned}

Requests ==
    {[versioned |-> FALSE, number |-> 0]} \cup {[versioned |-> TRUE, number |-> n] : n \in 1..MaxVersion}

DispatchNext ==
    \/ \E spec \in VersionSpecs : Register(spec)
    \/ \E req \in Requests : Resolve(req)

DispatchInit ==
    /\ router = [versions |-> EmptyMap, unversioned |-> NotFound]
    /\ registered = <<>>
    /\ reached = <<>>
    /\ NoCall
    /\ NoThreads
    /\ NoConstruction
    /\ NoCoercion

SpecDispatch == DispatchInit /\ [][DispatchNext]_vars

----------------------------------------------------------------------------
(* hug/types.py: the coercion units, each called with one value.  A Python *)
(* value has a type, a number (for bool, int and float), characters (for   *)
(* str) and items (for list and tuple).                                    *)

PyValue(kind, n, chars, items) == [kind |-> kind, n |-> n, chars |-> chars, items |-> items]

PyNone == PyValue("NoneType", 0, <<>>, <<>>)
PyBool(b) == PyValue("bool", IF b THEN 1 ELSE 0, <<>>, <<>>)
PyInteger(n) == PyValue("int", n, <<>>, <<>>)
\* a float with a whole value, such as 1.0
PyFloat(n) == PyValue("float", n, <<>>, <<>>)
PyStr(chars) == PyValue("str", 0, chars, <<>>)
PyList(items) == PyValue("list", 0, <<>>, items)
PyTuple(items) == PyValue("tuple", 0, <<>>, items)

IsNumber(v) == v.kind \in {"bool", "int", "float"}

\* Python's a == b: numbers are equal by value whatever their type
PyEquals(a, b) ==
    IF IsNumber(a) /\ IsNumber(b) THEN a.n = b.n
    ELSE a = b

\* Python's bool(value)
PyTruth(v) ==
    CASE v.kind = "NoneType" -> FALSE
      [] IsNumber(v) -> v.n # 0
      [] v.kind = "str" -> v.chars # <<>>
      [] OTHER -> v.items # <<>>

\* str.lower, character by character
LowerChar(c) ==
    CASE c = "T" -> "t" [] c = "R" -> "r" [] c = "U" -> "u" [] c = "E" -> "e"
      [] c = "F" -> "f" [] c = "A" -> "a" [] c = "L" -> "l" [] c = "S" -> "s"
      [] OTHER -> c

Lower(chars) == [i \in 1..Len(chars) |-> LowerChar(chars[i])]

\* str.split(using) for a delimiter of one character: the pieces between
\* the delimiters, the empty ones included
RECURSIVE SplitFrom(_, _, _)
SplitFrom(chars, using, piece) ==
    IF chars = <<>> THEN <<PyStr(piece)>>
    ELSE IF Head(chars) = using THEN <<PyStr(piece)>> \o SplitFrom(Tail(chars), using, <<>>)
    ELSE SplitFrom(Tail(chars), using, Append(piece, Head(chars)))

Split(chars, using) == SplitFrom(chars, using, <<>>)

DigitChars == <<"0", "1", "2", "3", "4", "5", "6", "7", "8", "9">>

DigitValue(c) == (CHOOSE i \in DOMAIN DigitChars : DigitChars[i] = c) - 1

RECURSIVE DigitsValue(_, _)
DigitsValue(chars, sofar) ==
    IF chars = <<>> THEN sofar
    ELSE DigitsValue(Tail(chars), 10 * sofar + DigitValue(Head(chars)))

IsDigits(chars) == chars # <<>> /\ \A i \in DOMAIN chars : chars[i] \in Range(DigitChars)

\* what a call gives back: a value, or the exception it raised; ran lists
\* the inner coercions a combinator applied, in order
TypeReturned(v, ran) == [raised |-> "none", value |-> v, message |-> "", ran |-> ran]
TypeRaised(t, message, ran) == [raised |-> t, value |-> PyNone, message |-> message, ran |-> ran]

\* int(value)
int(v) ==
    CASE IsNumber(v) -> TypeReturned(PyInteger(v.n), <<>>)
      [] v.kind = "str" /\ IsDigits(v.chars) -> TypeReturned(PyInteger(DigitsValue(v.chars, 0)), <<>>)
      [] v.kind = "str" /\ v.chars # <<>> /\ Head(v.chars) = "-" /\ IsDigits(Tail(v.chars)) ->
             TypeReturned(PyInteger(0 - DigitsValue(Tail(v.chars), 0)), <<>>)
      [] v.kind = "str" -> TypeRaised("ValueError", "invalid literal for int()", <<>>)
      [] OTHER -> TypeRaised("TypeError", "int() argument must be a string or a number", <<>>)

\* str(n) for a whole number
RECURSIVE IntChars(_)
IntChars(n) ==
    IF n < 0 THEN <<"-">> \o IntChars(0 - n)
    ELSE IF n < 10 THEN <<DigitChars[n + 1]>>
    ELSE IntChars(n \div 10) \o <<DigitChars[(n % 10) + 1]>>

\* value + " converted"
PlusConverted(v) ==
    IF v.kind = "str" THEN TypeReturned(PyStr(Append(v.chars, " converted")), <<>>)
    ELSE TypeRaised("TypeError", "unsupported operand type(s) for +", <<>>)

\* the converters wrapped by accept: int, and the two custom converters of
\* tests/test_types.py, `value + " converted"` and
\* `(str(int(value)) if value else value) + " converted"`
Convert(kind, v) ==
    CASE kind = "int" -> int(v)
      [] kind = "converted" -> PlusConverted(v)
      [] kind = "int converted" ->
             IF ~PyTruth(v) THEN PlusConverted(v)
             ELSE IF int(v).raised # "none" THEN int(v)
             ELSE PlusConverted(PyStr(IntChars(int(v).value.n)))

\* the coercion units: what each is constructed with
Accept(kind, error_text, exception_handlers) ==
    [type |-> "accept", kind |-> kind, error_text |-> error_text,
     exception_handlers |-> exception_handlers]
NumberType == Accept("int", "Invalid whole number provided", <<>>)
Multiple == [type |-> "multiple"]
DelimitedList(using) == [type |-> "delimited_list", using |-> using]
SmartBoolean == [type |-> "smart_boolean"]
Multi(types) == [type |-> "multi", types |-> types]
InRange(lower, upper, convert) ==
    [type |-> "in_range", lower |-> lower, upper |-> upper, convert |-> convert]
Chain(types) == [type |-> "chain", types |-> types]
Nullable(types) == [type |-> "nullable", types |-> types]

\* an entry of exception_handlers: the exception class taken and the text or
\* the exception class it is rewritten to
Handler(take, rewrite_is_str, rewrite) ==
    [take |-> take, rewrite_is_str |-> rewrite_is_str, rewrite |-> rewrite]

\* a variant in which error_text is looked at before the exception handlers
RewriteTextFirst(unit, error) ==
    LET matching == {i \in DOMAIN unit.exception_handlers :
                        IsInstance(error.raised, unit.exception_handlers[i].take)}
        first == unit.exception_handlers[CHOOSE i \in matching : \A j \in matching : i <= j]
    IN  IF unit.error_text # "" THEN TypeRaised("ValueError", unit.error_text, <<>>)
        ELSE IF matching # {}
        THEN IF first.rewrite_is_str THEN TypeRaised("ValueError", first.rewrite, <<>>)
             ELSE TypeRaised(first.rewrite, "", <<>>)
        ELSE error

\* Accept.__call__, lines 71-80: what is raised in place of the exception
\* of the converter
Rewrite(unit, error) ==
    LET matching == {i \in DOMAIN unit.exception_handlers :
                        IsInstance(error.raised, unit.exception_handlers[i].take)}
        first == unit.exception_handlers[CHOOSE i \in matching : \A j \in matching : i <= j]
    IN  IF matching # {}
        THEN IF first.rewrite_is_str THEN TypeRaised("ValueError", first.rewrite, <<>>)
             ELSE TypeRaised(first.rewrite, "", <<>>)
        ELSE IF unit.error_text # "" THEN TypeRaised("ValueError", unit.error_text, <<>>)
        ELSE error

\* Accept.__call__, lines 67-82
Accept_call(unit, v) ==
    LET converted == Convert(unit.kind, v)
    IN  IF unit.exception_handlers # <<>> \/ unit.error_text # ""
        THEN IF converted.raised = "none" THEN converted ELSE Rewrite(unit, converted)
        ELSE converted

\* a variant that wraps whatever it is given
IsListNever(v) == FALSE

\* isinstance(value, list)
IsList(v) == v.kind = "list"

\* Multiple.__call__, line 109
Multiple_call(v) ==
    IF IsList(v) THEN TypeReturned(v, <<>>) ELSE TypeReturned(PyList(<<v>>), <<>>)

\* DelimitedList.__call__, line 124
DelimitedList_call(unit, v) ==
    IF v.kind \in {"list", "tuple"} THEN TypeReturned(v, <<>>)
    ELSE IF v.kind = "str" THEN TypeReturned(PyList(Split(v.chars, unit.using)), <<>>)
    ELSE TypeRaised("AttributeError", "object has no attribute 'split'", <<>>)

\* a variant that compares the text as it was given
SmartBooleanTextAsGiven(v) == v.chars

\* line 135: value.lower()
SmartBooleanText(v) == Lower(v.chars)

TrueTexts == {<<"t", "r", "u", "e">>, <<"t">>, <<"1">>}

FalseTexts == {<<"f", "a", "l", "s", "e">>, <<"f">>, <<"0">>, <<>>}

\* SmartBoolean.__call__, lines 131-141
SmartBoolean_call(v) ==
    IF v.kind = "bool" \/ \E m \in {PyNone, PyInteger(1), PyInteger(0)} : PyEquals(v, m)
    THEN TypeReturned(PyBool(PyTruth(v)), <<>>)
    ELSE IF v.kind # "str"
    THEN TypeRaised("AttributeError", "object has no attribute 'lower'", <<>>)
    ELSE IF SmartBooleanText(v) \in TrueTexts THEN TypeReturned(PyBool(TRUE), <<>>)
    ELSE IF SmartBooleanText(v) \in FalseTexts THEN TypeReturned(PyBool(FALSE), <<>>)
    ELSE TypeRaised("KeyError", "Invalid value passed in for true/false field", <<>>)

\* a variant whose upper bound is itself accepted
ReachesLimitAbove(n, upper) == n > upper

\* line 240: value >= self.upper
ReachesLimit(n, upper) == n >= upper

\* a variant that goes on to the next coercion whatever the attempt gave
MultiReturnsNever(attempt) == FALSE

\* lines 215-218: the attempt returned, so its value is returned
MultiReturns(attempt) == attempt.raised = "none"

\* a variant that also takes 0, False and "" for null
IsNullOrFalsy(v) == ~PyTruth(v)

\* line 384: value == None
IsNull(v) == PyEquals(v, PyNone)

RECURSIVE TypeCall(_, _), InRange_call(_, _), MultiFrom(_, _, _), ChainFrom(_, _, _)

\* InRange.__call__, lines 236-242
InRange_call(unit, v) ==
    LET converted == TypeCall(unit.convert, v)
    IN  IF converted.raised # "none" THEN converted
        ELSE IF ~IsNumber(converted.value)
        THEN TypeRaised("TypeError", "'<' not supported between instances", <<>>)
        ELSE IF converted.value.n < unit.lower
        THEN TypeRaised("ValueError", "is less than the lower limit", <<>>)
        ELSE IF ReachesLimit(converted.value.n, unit.upper)
        THEN TypeRaised("ValueError", "reaches the limit", <<>>)
        ELSE TypeReturned(converted.value, <<>>)

\* Multi.__call__, lines 213-219, from the i-th of its types on
MultiFrom(unit, v, i) ==
    IF i > Len(unit.types)
    THEN TypeRaised("ValueError", "Accepts any of the following value types", [j \in 1..(i - 1) |-> j])
    ELSE LET attempt == TypeCall(unit.types[i], v)
         IN  IF MultiReturns(attempt) THEN TypeReturned(attempt.value, [j \in 1..i |-> j])
             ELSE MultiFrom(unit, v, i + 1)

\* Chain.__call__, lines 370-373, from the i-th of its types on
ChainFrom(unit, v, i) ==
    IF i > Len(unit.types) THEN TypeReturned(v, [j \in 1..(i - 1) |-> j])
    ELSE LET applied == TypeCall(unit.types[i], v)
         IN  IF applied.raised # "none"
             THEN TypeRaised(applied.raised, applied.message, [j \in 1..i |-> j])
             ELSE ChainFrom(unit, applied.value, i + 1)

\* Nullable.__call__, lines 383-387
Nullable_call(unit, v) ==
    IF IsNull(v) THEN TypeReturned(PyNone, <<>>) ELSE ChainFrom(unit, v, 1)

\* type_handler(value): the __call__ of the class of the unit
TypeCall(unit, v) ==
    CASE unit.type = "accept" -> Accept_call(unit, v)
      [] unit.type = "multiple" -> Multiple_call(v)
      [] unit.type = "delimited_list" -> DelimitedList_call(unit, v)
      [] unit.type = "smart_boolean" -> SmartBoolean_call(v)
      [] unit.type = "multi" -> MultiFrom(unit, v, 1)
      [] unit.type = "in_range" -> InRange_call(unit, v)
      [] unit.type = "chain" -> ChainFrom(unit, v, 1)
      [] unit.type = "nullable" -> Nullable_call(unit, v)

\* ---- the coercion units applied to one value ----
MaxNumber == 5

Texts ==
    {<<"t", "r", "u", "e">>,
     <<"T", "R", "U", "E">>,
     <<"T", "r", "u", "e">>,
     <<"t">>,
     <<"T">>,
     <<"1">>,
     <<"f", "a", "l", "s", "e">>,
     <<"F", "a", "l", "s", "e">>,
     <<"f">>,
     <<"F">>,
     <<"0">>,
     <<>>,
     <<"y", "e", "s">>,
     <<"2">>,
     <<"5">>,
     <<"9">>,
     <<"6">>,
     <<"1", "0">>,
     <<"-", "1">>,
     <<"1", ",", "2">>,
     <<"a", ",", "b", ",">>,
     <<"1", "|", "2">>,
     <<"b", "a", "c", "o", "n">>}

Numbers == (0 - 1)..MaxNumber

TypeValues ==
    {PyNone, PyBool(TRUE), PyBool(FALSE), PyFloat(0), PyFloat(1), PyFloat(2)}
    \cup {PyInteger(n) : n \in Numbers}
    \cup {PyStr(chars) : chars \in Texts}
    \cup {PyList(<<>>), PyList(<<PyStr(<<"1">>)>>), PyList(<<PyInteger(1), PyInteger(2)>>),
          PyTuple(<<>>), PyTuple(<<PyStr(<<"1">>), PyStr(<<"2">>)>>)}

HandlerLists ==
    {<<>>,
     <<Handler("TypeError", TRUE, "0 provided")>>,
     <<Handler("TypeError", FALSE, "KeyError")>>,
     <<Handler("ValueError", TRUE, "not a number"), Handler("Exception", FALSE, "KeyError")>>,
     <<Handler("Exception", TRUE, "anything"), Handler("TypeError", FALSE, "KeyError")>>}

AcceptUnits ==
    {Accept(kind, error_text, handlers) :
        kind \in {"int", "converted", "int converted"},
        error_text \in {"", "Error occurred", "Invalid whole number provided"},
        handlers \in HandlerLists}

InRangeUnits ==
    {InRange(lower, upper, convert) :
        lower \in 0..MaxNumber, upper \in 0..MaxNumber, convert \in {NumberType, SmartBoolean}}
    \cup {InRange(0, 10, NumberType)}

SimpleUnits ==
    {NumberType, SmartBoolean, Multiple, DelimitedList(","), InRange(1, MaxNumber, NumberType),
     Accept("converted", "", <<>>)}

UnitLists == {<<>>} \cup {<<a>> : a \in SimpleUnits} \cup {<<a, b>> : a \in SimpleUnits, b \in SimpleUnits}

Units ==
    AcceptUnits \cup InRangeUnits \cup {Multiple, SmartBoolean, DelimitedList(","), DelimitedList("|")}
    \cup {Multi(types) : types \in UnitLists}
    \cup {Chain(types) : types \in UnitLists}
    \cup {Nullable(types) : types \in UnitLists}

\* how many times a unit is applied, each time to what it returned before
MaxApplications == 2

\* what the next call of the unit is given: the value, then its own output
Argument ==
    IF type_result = <<>> THEN type_call.value ELSE type_result[Len(type_result)].value

\* the unit of the given class is called
Calls(type) ==
    /\ Len(type_result) < MaxApplications
    /\ type_result # <<>> => type_result[Len(type_result)].raised = "none"
    /\ type_call.unit.type = type
    /\ type_result' = Append(type_result, TypeCall(type_call.unit, Argument))
    /\ UNCHANGED <<type_call, call_vars, thread_vars, dispatch_vars, build_vars>>

AcceptCalled == Calls("accept")

MultipleCalled == Calls("multiple")

DelimitedListCalled == Calls("delimited_list")

SmartBooleanCalled == Calls("smart_boolean")

MultiCalled == Calls("multi")

InRangeCalled == Calls("in_range")

ChainCalled == Calls("chain")

NullableCalled == Calls("nullable")

TypesNext ==
    \/ AcceptCalled
    \/ MultipleCalled
    \/ DelimitedListCalled
    \/ SmartBooleanCalled
    \/ MultiCalled
    \/ InRangeCalled
    \/ ChainCalled
    \/ NullableCalled

TypesInit ==
    /\ type_call \in {[unit |-> unit, value |-> value] : unit \in Units, value \in TypeValues}
    /\ type_result = <<>>
    /\ NoCall
    /\ NoThreads
    /\ NoDispatch
    /\ NoConstruction

SpecTypes == TypesInit /\ [][TypesNext]_vars

----------------------------------------------------------------------------
(* Properties *)

\* the input as gathered, before validate coerces it in place
Gathered == gather_parameters(iface, request, response, kwargs)

\* the parameters whose coercion fails on the gathered input
Failing ==
    { iface.input_transformations[i].key : i \in
        { j \in DOMAIN iface.input_transformations :
            LET t == iface.input_transformations[j]
            IN  /\ t.key \in DOMAIN Gathered
                /\ TypeHandler(t.type_handler, Gathered[t.key]).raised # "none" } }

Called(fn) == {k \in DOMAIN calls : calls[k].fn = fn}

\* validate has returned its error mapping
ValidateReturned ==
    pc = "validated" \/ response.data.kind = "errors" \/ Called("function") # {}

\* C1: with raise_on_invalid unset, when two or more parameters fail their
\* coercion the error mapping validate returns has an entry for each of them
C1_EveryFailureReported ==
    (ValidateReturned /\ ~iface.raise_on_invalid /\ Cardinality(Failing) >= 2)
        => Failing \subseteq DOMAIN errors

C1_Witness ==
    /\ pc = "validated" /\ ~iface.raise_on_invalid
    /\ Cardinality(Failing) >= 2
    /\ Failing \subseteq DOMAIN errors

MissingRequired == {r \in Range(iface.required) : r \notin DOMAIN Gathered}

\* C2: when the input lacks a required parameter, the error mapping validate
\* returns maps every missing required parameter to "Required parameter not
\* supplied" and no required parameter that is present to that message
C2_RequiredReported ==
    (ValidateReturned /\ MissingRequired # {}) =>
        /\ \A r \in MissingRequired :
              r \in DOMAIN errors /\ errors[r] = "Required parameter not supplied"
        /\ \A r \in Range(iface.required) \ MissingRequired :
              ~(r \in DOMAIN errors /\ errors[r] = "Required parameter not supplied")

C2_Witness ==
    /\ pc = "validated"
    /\ MissingRequired # {}
    /\ Range(iface.required) \ MissingRequired # {}
    /\ Failing # {}
    /\ \A r \in MissingRequired : r \in DOMAIN errors /\ errors[r] = "Required parameter not supplied"

\* C3: when validation yields a non-empty error mapping the wrapped function
\* is never called, and the invocation ends with the bad-request status and
\* the body {errors: errors} sent through on_invalid (when set) and then the
\* invalid-output formatter, or the outputs formatter when there is none
C3_ValidationFailureExit ==
    (pc # "validate" /\ errors # EmptyMap) =>
        /\ pc \in {"validated", "done"}
        /\ Called("function") = {}
        /\ pc = "done" =>
              /\ response.status = HTTP_BAD_REQUEST
              /\ response.data.kind = "errors"
              /\ response.data.payload = errors
              /\ response.data.via =
                    (IF iface.on_invalid # "absent" THEN <<iface.on_invalid>> ELSE <<>>)
                    \o <<IF iface.invalid_outputs # "absent"
                         THEN iface.invalid_outputs ELSE iface.outputs>>

C3_Witness ==
    /\ pc = "done" /\ errors # EmptyMap
    /\ iface.set_status = "201 Created"
    /\ iface.on_invalid = "on_invalid" /\ iface.invalid_outputs = "output_invalid"
    /\ response.status = HTTP_BAD_REQUEST
    /\ response.data.via = <<"on_invalid", "output_invalid">>

\* the requirements that short-circuit, and the first of them
ShortCircuiting == {i \in DOMAIN iface.requires : LacksRequirement(iface.requires[i])}

FirstShortCircuit == CHOOSE i \in ShortCircuiting : \A j \in ShortCircuiting : i <= j

\* the status of the response once the configured status is set
ConfiguredStatus == IF iface.set_status # "absent" THEN iface.set_status ELSE "200 OK"

\* C4: the requirements are checked in their order before anything else; at
\* the first that short-circuits no later requirement is checked, no input is
\* gathered or validated, the function is not called, and the body is the
\* requirement's value sent through outputs under the configured status
C4_RequirementsFirst ==
    /\ \A k \in DOMAIN calls :
          /\ calls[k].fn = "requirement" => calls[k].idx = k
          /\ calls[k].fn # "requirement" => k > Len(iface.requires)
    /\ ShortCircuiting # {} =>
          /\ pc \in {"start", "requirements", "done"}
          /\ Len(calls) <= FirstShortCircuit
          /\ \A k \in DOMAIN calls : calls[k].fn = "requirement"
          /\ Len(calls) = FirstShortCircuit <=> pc = "done"
          /\ pc = "done" =>
                /\ response.data = Data("conclusion", iface.requires[FirstShortCircuit],
                                        <<iface.outputs>>)
                /\ response.status = ConfiguredStatus

C4_Witness ==
    /\ pc = "done"
    /\ Len(iface.requires) = 2 /\ FirstShortCircuit = 1
    /\ ShortCircuiting = {1, 2}
    /\ Len(calls) = 1
    /\ iface.set_status = "201 Created"
    /\ response.data.kind = "conclusion"

\* the transformations whose coercion fails on the gathered input
FailingIdx ==
    { j \in DOMAIN iface.input_transformations :
        iface.input_transformations[j].key \in Failing }

FirstFailingIdx == CHOOSE i \in FailingIdx : \A j \in FailingIdx : i <= j

FirstFailure ==
    LET t == iface.input_transformations[FirstFailingIdx]
    IN  TypeHandler(t.type_handler, Gathered[t.key])

\* C5: a requirement whose result is anything but true (false and none
\* included) keeps the wrapped function from being called
C5_NonTrueShortCircuits ==
    (\E i \in DOMAIN iface.requires : iface.requires[i] # True) => Called("function") = {}

\* C6: with raise_on_invalid set the first coercion failure leaves validate
\* as an exception: no error is recorded, no later parameter is coerced, the
\* required parameters and the validate function are not checked and the
\* wrapped function is not called
C6_FirstFailurePropagates ==
    (iface.raise_on_invalid /\ FailingIdx # {}) =>
        /\ errors = EmptyMap
        /\ ~ValidateReturned
        /\ Called("validate_function") = {}
        /\ Called("function") = {}
        /\ \A k \in Called("type_handler") : calls[k].idx <= FirstFailingIdx
        /\ key_idx <= FirstFailingIdx
        /\ (\E k \in Called("type_handler") : calls[k].idx = FirstFailingIdx) =>
              /\ pc \in {"raised", "done", "propagated"}
              /\ exception = FirstFailure.raised

C6_Witness ==
    /\ iface.raise_on_invalid
    /\ FailingIdx # {} /\ FirstFailingIdx < Len(iface.input_transformations)
    /\ Range(iface.required) \ DOMAIN Gathered # {}
    /\ iface.validate_function # "absent"
    /\ pc = "propagated"
    /\ exception = "ValueError"

\* the gathered input with every coercion applied
Coerced ==
    [name \in DOMAIN Gathered |->
        IF \E j \in DOMAIN iface.input_transformations : iface.input_transformations[j].key = name
        THEN LET j == CHOOSE i \in DOMAIN iface.input_transformations :
                          iface.input_transformations[i].key = name
             IN  TypeHandler(iface.input_transformations[j].type_handler, Gathered[name]).value
        ELSE Gathered[name]]

\* C7: the validate function runs only when it is configured and neither a
\* coercion nor the required-parameter check found an error; it is given the
\* coerced input and the mapping it returns is the error mapping
C7_ValidateFunctionLast ==
    /\ Cardinality(Called("validate_function")) <= 1
    /\ \A k \in Called("validate_function") :
          /\ iface.validate_function # "absent"
          /\ Failing = {}
          /\ MissingRequired = {}
          /\ calls[k].args = Coerced
          /\ errors = ValidateFunction(iface.validate_function, Coerced)

C7_Witness ==
    /\ pc = "done"
    /\ \E k \in Called("validate_function") :
          \E name \in DOMAIN Gathered :
              /\ Gathered[name].kind = "str"
              /\ calls[k].args[name].kind = "int"
    /\ errors # EmptyMap
    /\ response.data.kind = "errors"

FunctionRaised == \E k \in Called("function") : calls[k].exc # "none"

\* the one call of the handler registered for the exception's own type
DelegatedToOwnHandler ==
    /\ pc = "done"
    /\ Called("not_found") = {}
    /\ Cardinality(Called("exception_handler")) = 1
    /\ \A k \in Called("exception_handler") :
          /\ calls[k].name = exception
          /\ calls[k].exc = exception
          /\ calls[k].args = kwargs

\* C8 as stated: with exception catching enabled, an exception of the wrapped
\* function whose exact type is registered is given once to that type's
\* handler with the original keyword arguments, and the invocation completes
C8_ExactTypeHandled ==
    (iface.catch_exceptions /\ FunctionRaised /\ exception \in Range(api.exception_handlers)
        /\ pc # "raised") => DelegatedToOwnHandler

\* C8 as amended: the same for every exception that is not a resource-not-found
C8_ExactTypeHandledUnlessNotFound ==
    (iface.catch_exceptions /\ FunctionRaised /\ exception \in Range(api.exception_handlers)
        /\ ~IsInstance(exception, "HTTPNotFound") /\ pc # "raised") => DelegatedToOwnHandler

C8_Witness ==
    /\ iface.catch_exceptions /\ FunctionRaised
    /\ api.exception_handlers = <<"Exception", "ValueError">>
    /\ exception = "ValueError"
    /\ kwargs # input_parameters
    /\ DelegatedToOwnHandler

\* the registered types the exception is an instance of, by registration index
MatchingIdx == {i \in DOMAIN api.exception_handlers : IsInstance(exception, api.exception_handlers[i])}

\* C9: without an exact type match, of several registered types the exception
\* is an instance of, the handler registered last is the one used
C9_MostRecentMatchUsed ==
    \A k \in Called("exception_handler") :
        (exception \notin Range(api.exception_handlers) /\ Cardinality(MatchingIdx) >= 2)
            => calls[k].name = api.exception_handlers[CHOOSE i \in MatchingIdx : \A j \in MatchingIdx : j <= i]

\* C10 as stated: with exception catching disabled every exception propagates
\* and no handler at all is called
C10_NothingHandled ==
    (~iface.catch_exceptions /\ exception # "none" /\ pc # "raised") =>
        /\ pc = "propagated"
        /\ Called("exception_handler") = {}
        /\ Called("not_found") = {}

\* C10 as amended: with exception catching disabled no handler of the
\* exception-handler table is called and every exception but a
\* resource-not-found propagates; that one still goes to the not-found handler
C10_OnlyNotFoundHandled ==
    (~iface.catch_exceptions /\ exception # "none") =>
        /\ Called("exception_handler") = {}
        /\ ~IsInstance(exception, "HTTPNotFound") =>
              /\ pc \in {"raised", "propagated"}
              /\ Called("not_found") = {}
        /\ (IsInstance(exception, "HTTPNotFound") /\ pc # "raised") =>
              /\ pc = "done"
              /\ Cardinality(Called("not_found")) = 1

C10_Witness ==
    /\ ~iface.catch_exceptions
    /\ pc = "propagated"
    /\ FunctionRaised
    /\ exception \in Range(api.exception_handlers)
    /\ Called("exception_handler") = {}

\* C11: a resource-not-found raised during the invocation goes to the API's
\* not-found handler, once, with the original keyword arguments, and never to
\* a handler of the exception-handler table, whatever is registered there
C11_NotFoundDelegated ==
    (IsInstance(exception, "HTTPNotFound") /\ pc # "raised") =>
        /\ pc = "done"
        /\ Called("exception_handler") = {}
        /\ Cardinality(Called("not_found")) = 1
        /\ \A k \in Called("not_found") : calls[k].args = kwargs /\ calls[k].exc = exception

C11_Witness ==
    /\ pc = "done"
    /\ exception = "HTTPNotFound"
    /\ iface.catch_exceptions
    /\ api.exception_handlers = <<"HTTPNotFound", "HTTPError">>
    /\ kwargs # EmptyMap /\ kwargs # input_parameters
    /\ \E k \in Called("not_found") : calls[k].args = kwargs

\* the function returned a result of this kind and the call is over
ResultWas(kind) ==
    /\ pc = "done"
    /\ Called("function") # {}
    /\ iface.function.raises = "none"
    /\ iface.function.returns = kind

\* the requested range lies inside a stream of known size
RangeInside ==
    /\ request.range # <<>>
    /\ 0 <= request.range[1]
    /\ request.range[1] <= request.range[2]
    /\ request.range[2] < iface.function.size

\* C12: for a stream result of known size S and a requested range (start, end)
\* with 0 <= start <= end < S, the body is the end-start+1 bytes at offset
\* start, the status is partial content, the content range is (start, end, S),
\* the stream is closed and no response stream is assigned.
C12_RangeServed ==
    (ResultWas("stream") /\ RangeInside) =>
        /\ response.data.kind = "bytes"
        /\ response.data.payload = [offset |-> request.range[1],
                                    count |-> request.range[2] - request.range[1] + 1]
        /\ response.status = "206 Partial Content"
        /\ response.content_range = <<request.range[1], request.range[2], iface.function.size>>
        /\ Cardinality(Called("close")) = 1
        /\ \A k \in Called("seek") : calls[k].idx = request.range[1]
        /\ response.stream = <<>>
        /\ response.stream_len = 0

C12_Witness ==
    /\ ResultWas("stream")
    /\ iface.function.size = MaxSize
    /\ request.range = <<1, MaxSize - 1>>
    /\ response.status = "206 Partial Content"
    /\ Called("close") # {}

\* C19: a result that is itself an interface is invoked exactly once, with
\* the original keyword arguments, and the outer interface then returns
\* without its transform, its output formatter or a response body of its own.
C19_ChainedOnce ==
    ResultWas("interface") =>
        /\ Cardinality(Called("interface")) = 1
        /\ \A k \in Called("interface") :
              /\ calls[k].args = kwargs
              /\ \A j \in Called("function") : j < k
        /\ response.data = NoData
        /\ response.stream = <<>>
        /\ response.content_range = <<>>
        /\ Called("seek") \cup Called("read") \cup Called("close") = {}

C19_Witness ==
    /\ ResultWas("interface")
    /\ iface.transform = "transform"
    /\ kwargs # EmptyMap
    /\ kwargs # input_parameters
    /\ \E k \in Called("interface") : calls[k].args = kwargs

\* the frame in which an invocation entered __call__
Entry(f) == NewFrame(f.request, f.kwargs, f.request.id)

\* the calls of one directive made by an invocation
DirectiveCallsOf(f, name) ==
    {k \in DOMAIN f.calls : f.calls[k].fn = "directive" /\ f.calls[k].name = name}

ReachedGathering(f) ==
    \/ f.pc \in {"validate", "validated", "raised"}
    \/ f.pc \in Terminal /\ f.response.data.kind # "conclusion"

KeysFor(function, input) ==
    IF function.takes_kwargs THEN input ELSE Restrict(input, Range(function.parameters))

\* C18: a function that does not accept arbitrary keyword arguments is
\* called with the gathered keys that are in its parameter list, one that
\* does is called with every gathered key.
C18_CalledWithItsKeys ==
    outcome.step = "takes_kwargs" =>
        /\ outcome.result.raised = "none"
        /\ FunctionArguments([takes_kwargs |-> outcome.result.value,
                              parameters |-> subject.function.parameters], subject.input)
               = KeysFor(subject.function, subject.input)

\* the parameters that have a default: the trailing ones
Defaulted(function) ==
    {function.parameters[i] :
        i \in (Len(function.parameters) - Len(function.defaults) + 1)..Len(function.parameters)}

\* C20: at construction the required set is the parameter list minus the
\* parameters with a default, minus those satisfied by a directive, minus
\* the leading receiver of a bound method, and the defaults mapping pairs
\* the trailing parameters with the default values in order.
C20_RequiredAtConstruction ==
    outcome.step = "construct" =>
        LET function == subject.function
            parameters == IF function.is_method THEN Tail(function.parameters)
                          ELSE function.parameters
            first == Len(function.parameters) - Len(function.defaults)
        IN  /\ outcome.interface.required
                   = SelectSeq(parameters,
                               LAMBDA name : /\ name \notin Defaulted(function)
                                             /\ name \notin outcome.interface.directives)
            /\ DOMAIN outcome.interface.defaults = Defaulted(function)
            /\ \A i \in 1..Len(function.defaults) :
                   outcome.interface.defaults[function.parameters[first + i]]
                       = function.defaults[i]

\* the registrations whose version spec contains the number
Containing(n) == {i \in DOMAIN registered : n \in VersionsOf(registered[i])}

\* the registrations made with no version
WithoutVersion == {i \in DOMAIN registered : registered[i].kind = "none"}

Last(S) == CHOOSE i \in S : \A j \in S : j <= i

\* the path of the example: version 1, versions 2 to 4 and version "6"
EchoRegistered == registered = <<Single(1), RangeOf(2, 5), Text("6")>>

\* C13: a request for version N reaches an entry whose version spec
\* contains N (of the path registered for 1, for 2..4 and for "6": 1 the
\* first, 2..4 the second, 6 the third); a request for a version that no
\* entry contains, and a request with no version, find nothing when the
\* path has no unversioned entry.
C13_VersionResolved ==
    \A r \in Range(reached) :
        /\ WithoutVersion = {} =>
              IF r.request.versioned /\ Containing(r.request.number) # {}
              THEN r.interface \in Containing(r.request.number)
              ELSE r.interface = NotFound
        /\ EchoRegistered =>
              r.interface = IF ~r.request.versioned THEN NotFound
                            ELSE IF r.request.number = 1 THEN 1
                            ELSE IF r.request.number \in 2..4 THEN 2
                            ELSE IF r.request.number = 6 THEN 3
                            ELSE NotFound

C13_Witness ==
    /\ EchoRegistered
    /\ \E r \in Range(reached) : r.request.versioned /\ r.request.number = 3 /\ r.interface = 2

\* C14: after any sequence of registrations each version number is served by
\* at most one Interface, that of the last registration whose version spec
\* contains the number; a version the later specs do not contain keeps the
\* Interface of the earlier registration.
C14_LastRegistrationWins ==
    \A n \in 1..(MaxVersion + 1) :
        IF Containing(n) = {} THEN n \notin DOMAIN router.versions
        ELSE /\ n \in DOMAIN router.versions
             /\ router.versions[n] = Last(Containing(n))

C14_Witness ==
    /\ registered = <<RangeOf(2, 5), Single(2), Unversioned>>
    /\ router.versions[2] = 2
    /\ router.versions[3] = 1

\* C15: an Interface registered with no version is reached by a request
\* with no version and by a request for any version N, unless an entry of
\* the path contains N, which is then reached; a route registered only for
\* version 1 is not reached by a request for version 2.
C15_UnversionedFallback ==
    \A r \in Range(reached) :
        /\ WithoutVersion # {} =>
              r.interface = IF r.request.versioned /\ Containing(r.request.number) # {}
                            THEN Last(Containing(r.request.number))
                            ELSE Last(WithoutVersion)
        /\ (registered = <<Single(1)>> /\ r.request.versioned /\ r.request.number = 2) =>
              r.interface # 1

C15_Witness ==
    /\ registered = <<Unversioned, Single(1)>>
    /\ \E r \in Range(reached) : r.request.versioned /\ r.request.number = 2 /\ r.interface = 1

\* ---- the coercion units ----
\* the unit of the given class has been called
TypeCalled(type) == type_result # <<>> /\ type_call.unit.type = type

\* C21: smart_boolean returns bool(value) for a native boolean and for a
\* value equal to None, 0 or 1; a string is compared without regard to case,
\* "true", "t", "1" giving True and "false", "f", "0", "" giving False; every
\* other input raises and returns nothing.
C21_SmartBoolean ==
    TypeCalled("smart_boolean") =>
        LET value == type_call.value
            returned == type_result[1]
        IN  IF value.kind = "bool" \/ PyEquals(value, PyNone)
               \/ PyEquals(value, PyInteger(0)) \/ PyEquals(value, PyInteger(1))
            THEN returned.raised = "none" /\ returned.value = PyBool(PyTruth(value))
            ELSE IF value.kind = "str" /\ Lower(value.chars) \in TrueTexts
            THEN returned.raised = "none" /\ returned.value = PyBool(TRUE)
            ELSE IF value.kind = "str" /\ Lower(value.chars) \in FalseTexts
            THEN returned.raised = "none" /\ returned.value = PyBool(FALSE)
            ELSE returned.raised # "none" /\ returned.value = PyNone

C21_Witness ==
    /\ TypeCalled("smart_boolean")
    /\ type_call.value = PyStr(<<"T">>)
    /\ type_result[1].value = PyBool(TRUE)

\* C22: in_range(lower, upper) applies its inner coercion first; when that
\* returns v, v is returned exactly when lower <= v < upper and the call
\* raises for v < lower and for v >= upper; in_range(0, 10) takes 0 and 9 and
\* refuses 10 and -1.
C22_HalfOpenRange ==
    TypeCalled("in_range") =>
        LET unit == type_call.unit
            inner == TypeCall(unit.convert, type_call.value)
            returned == type_result[1]
        IN  /\ inner.raised # "none" => returned.raised = inner.raised
            /\ inner.raised = "none" =>
                 /\ (unit.lower <= inner.value.n /\ inner.value.n < unit.upper)
                        <=> returned.raised = "none"
                 /\ returned.raised = "none" => returned.value = inner.value
                 /\ returned.raised # "none" => returned.raised = "ValueError"
            /\ (unit = InRange(0, 10, NumberType) /\ type_call.value.kind = "str") =>
                 /\ type_call.value.chars \in {<<"0">>, <<"9">>}
                        => returned = TypeReturned(int(type_call.value).value, <<>>)
                 /\ type_call.value.chars \in {<<"1", "0">>, <<"-", "1">>}
                        => returned.raised = "ValueError"

C22_Witness ==
    /\ TypeCalled("in_range")
    /\ type_call.unit = InRange(0, 10, NumberType)
    /\ type_call.value = PyStr(<<"1", "0">>)
    /\ type_result[1].raised = "ValueError"

\* C23: multiple and the delimited list are idempotent: applied to their own
\* output they return it unchanged; multiple wraps what is not a list into a
\* list of one, the delimited list splits a string on its delimiter, and a
\* list is returned as it is.
C23_ListUnitsIdempotent ==
    (TypeCalled("multiple") \/ TypeCalled("delimited_list")) =>
        LET unit == type_call.unit
            value == type_call.value
            once == type_result[1]
        IN  /\ Len(type_result) > 1 => type_result[2] = once
            /\ (value.kind = "list" /\ once.raised = "none") => once.value = value
            /\ (unit = Multiple /\ value.kind # "list") => once = TypeReturned(PyList(<<value>>), <<>>)
            /\ (unit.type = "delimited_list" /\ value.kind = "str") =>
                   once = TypeReturned(PyList(Split(value.chars, unit.using)), <<>>)
            /\ (unit = DelimitedList(",") /\ value = PyStr(<<"1", ",", "2">>)) =>
                   once.value = PyList(<<PyStr(<<"1">>), PyStr(<<"2">>)>>)

C23_Witness ==
    /\ TypeCalled("delimited_list")
    /\ type_call.unit = DelimitedList(",")
    /\ type_call.value = PyStr(<<"1", ",", "2">>)
    /\ Len(type_result) = 2
    /\ type_result[2].value = PyList(<<PyStr(<<"1">>), PyStr(<<"2">>)>>)

\* the coercions of the list that return for the value
Succeeding(types, value) == {i \in DOMAIN types : TypeCall(types[i], value).raised = "none"}

\* C24: multi applies its coercions in the order listed and returns what the
\* first one that does not raise returns, applying none after it; it raises
\* (ValueError) if and only if every listed coercion raises.
C24_MultiFirstSuccess ==
    TypeCalled("multi") =>
        LET types == type_call.unit.types
            succeeding == Succeeding(types, type_call.value)
            first == CHOOSE i \in succeeding : \A j \in succeeding : i <= j
            returned == type_result[1]
        IN  /\ returned.raised # "none" <=> succeeding = {}
            /\ succeeding = {} =>
                 /\ returned.raised = "ValueError"
                 /\ returned.ran = [j \in 1..Len(types) |-> j]
            /\ succeeding # {} =>
                 /\ returned.value = TypeCall(types[first], type_call.value).value
                 /\ returned.ran = [j \in 1..first |-> j]

C24_Witness ==
    /\ TypeCalled("multi")
    /\ type_call.unit = Multi(<<NumberType, SmartBoolean>>)
    /\ type_call.value = PyStr(<<"t">>)
    /\ type_result[1] = TypeReturned(PyBool(TRUE), <<1, 2>>)

\* what the first k coercions of the list make of the value, each given the
\* output of the one before, stopping at the first that raises
RECURSIVE After(_, _, _)
After(types, value, k) ==
    IF k = 0 THEN TypeReturned(value, <<>>)
    ELSE LET before == After(types, value, k - 1)
         IN  IF before.raised # "none" THEN before ELSE TypeCall(types[k], before.value)

\* the call went through the list as a chain does
ChainedThrough(types, value, returned) ==
    LET failing == {k \in DOMAIN types : After(types, value, k).raised # "none"}
        first == CHOOSE k \in failing : \A j \in failing : k <= j
    IN  IF failing = {}
        THEN returned = TypeReturned(After(types, value, Len(types)).value,
                                     [j \in 1..Len(types) |-> j])
        ELSE /\ returned.raised = After(types, value, first).raised
             /\ returned.message = After(types, value, first).message
             /\ returned.ran = [j \in 1..first |-> j]

\* C25: chain applies its coercions left to right, each on the output of the
\* one before, and raises what the first failing one raises without running
\* the later ones; nullable returns None without running any of them when the
\* value is None and is the chain on every other value.
C25_ChainAndNullable ==
    /\ TypeCalled("chain") =>
           ChainedThrough(type_call.unit.types, type_call.value, type_result[1])
    /\ TypeCalled("nullable") =>
           IF type_call.value = PyNone
           THEN type_result[1] = TypeReturned(PyNone, <<>>)
           ELSE ChainedThrough(type_call.unit.types, type_call.value, type_result[1])

C25_Witness ==
    /\ TypeCalled("nullable")
    /\ type_call.unit = Nullable(<<NumberType, Multiple>>)
    /\ type_call.value = PyStr(<<"b", "a", "c", "o", "n">>)
    /\ type_result[1].raised = "ValueError"
    /\ type_result[1].ran = <<1>>

\* C26: accept returns what the converter returns; when the converter raises,
\* the first entry of exception_handlers that the exception is an instance of
\* decides, a text giving a ValueError with that text and an exception class
\* giving an exception of that class, whatever error_text is; with no such
\* entry a configured error_text gives a ValueError with that text; otherwise
\* the exception of the converter propagates unchanged.
C26_AcceptRewrites ==
    TypeCalled("accept") =>
        LET unit == type_call.unit
            converted == Convert(unit.kind, type_call.value)
            returned == type_result[1]
            handlers == unit.exception_handlers
            listed == {i \in DOMAIN handlers : IsInstance(converted.raised, handlers[i].take)}
            entry == handlers[CHOOSE i \in listed : \A j \in listed : i <= j]
        IN  IF converted.raised = "none" THEN returned = converted
            ELSE IF listed # {}
            THEN IF entry.rewrite_is_str
                 THEN returned.raised = "ValueError" /\ returned.message = entry.rewrite
                 ELSE returned.raised = entry.rewrite
            ELSE IF unit.error_text # ""
            THEN returned.raised = "ValueError" /\ returned.message = unit.error_text
            ELSE returned = converted

C26_Witness ==
    /\ TypeCalled("accept")
    /\ type_call.unit = Accept("int converted", "Error occurred",
                               <<Handler("TypeError", FALSE, "KeyError")>>)
    /\ type_call.value = PyInteger(0)
    /\ type_result[1].raised = "KeyError"

\* ---- input gathering ----
\* gather_parameters has returned and nothing was coerced yet
JustGathered == pc = "validate" /\ key_idx = 1

\* the decoded body is a mapping whose keys are merged into the input
BodyMerged == iface.parse_body /\ request.content_length # "None" /\ request.body.kind = "dict"

\* the names whose value is injected and not taken from the client
InjectedNames ==
    (Range(iface.parameters) \cap {"request", "response", "api_version"}) \cup iface.directives

\* C27: after input gathering the declared request, response and api_version
\* parameters hold the transport objects and every directive parameter holds
\* the value its directive returned, whatever the query string, the decoded
\* body or the keyword arguments supply under the same name.
C27_InjectedNotOverridden ==
    JustGathered =>
        /\ \A name \in Range(iface.parameters) \cap {"request", "response"} :
               name \notin iface.directives => input_parameters[name] = Val(name, name)
        /\ ("api_version" \in Range(iface.parameters) /\ "api_version" \notin iface.directives)
               => input_parameters["api_version"] = request.api_version
        /\ \A name \in iface.directives :
               /\ input_parameters[name].kind = "directive"
               /\ input_parameters[name].val = name
               /\ input_parameters[name].request = request.id

C27_Witness ==
    /\ JustGathered
    /\ BodyMerged
    /\ {"request", ParamNames[1]} \subseteq DOMAIN request.body_items
    /\ {"request", ParamNames[1]} \subseteq DOMAIN request.params
    /\ ParamNames[1] \in DOMAIN kwargs
    /\ iface.parameters = <<"request", ParamNames[1]>>
    /\ iface.directives = {ParamNames[1]}
    /\ input_parameters["request"] = Val("request", "request")
    /\ input_parameters[ParamNames[1]].kind = "directive"

\* C28: a key supplied by several client sources takes the value of the
\* decoded body mapping, else of the query parameters, else of the keyword
\* arguments; a declared body parameter holds the whole decoded body unless
\* the body mapping has a key named body.
C28_GatherPrecedence ==
    JustGathered =>
        /\ \A key \in DOMAIN input_parameters \ (InjectedNames \cup {"body"}) :
               input_parameters[key] =
                   IF BodyMerged /\ key \in DOMAIN request.body_items THEN request.body_items[key]
                   ELSE IF key \in DOMAIN request.params THEN request.params[key]
                   ELSE kwargs[key]
        /\ \A key \in (DOMAIN request.params \cup DOMAIN kwargs
                         \cup (IF BodyMerged THEN DOMAIN request.body_items ELSE {})) :
               key \in DOMAIN input_parameters
        /\ ("body" \in Range(iface.parameters) /\ iface.parse_body
               /\ request.content_length # "None") =>
               input_parameters["body"] =
                   IF BodyMerged /\ "body" \in DOMAIN request.body_items
                   THEN request.body_items["body"] ELSE request.body

C28_Witness ==
    /\ JustGathered
    /\ BodyMerged
    /\ iface.parameters = <<ParamNames[1], "body">>
    /\ iface.directives = {}
    /\ ParamNames[1] \in DOMAIN request.body_items \cap DOMAIN request.params \cap DOMAIN kwargs
    /\ "body" \notin DOMAIN request.body_items
    /\ "body" \in DOMAIN request.params
    /\ input_parameters[ParamNames[1]] = Val("str", "from body")
    /\ input_parameters["body"] = request.body

\* ---- partial content ----
\* the requested range starts inside the stream and its end, counted from the
\* end of the stream when negative, is not before its start
RangeWellFormed ==
    /\ request.range # <<>>
    /\ request.range[1] < iface.function.size
    /\ \/ request.range[1] <= request.range[2]
       \/ request.range[2] < 0 /\ request.range[1] <= iface.function.size + request.range[2]

\* C29: every response served as partial content for a stream of size S
\* reports a content range (start, end, S) with 0 <= start <= end <= S-1 and
\* returns end-start+1 bytes, for a negative requested end and for a
\* requested end at or beyond S as well.
C29_RangeWithinStream ==
    (ResultWas("stream") /\ response.status = "206 Partial Content" /\ RangeWellFormed) =>
        LET start == response.content_range[1]
            end == response.content_range[2]
            S == response.content_range[3]
        IN  /\ S = iface.function.size
            /\ 0 <= start
            /\ start <= end
            /\ end <= S - 1
            /\ response.data.payload.count = end - start + 1

\* ---- exceptions raised before the wrapped function ----
\* the exception was raised by a requirement, by input gathering or a
\* directive, or by a coercion under raise_on_invalid
RaisedEarly ==
    /\ exception # "none"
    /\ \E k \in DOMAIN calls :
           /\ calls[k].fn \in {"requirement", "gather_parameters", "directive", "type_handler"}
           /\ calls[k].exc = exception

\* a type the exception is an instance of is registered in the
\* exception-handler table
Registered == \E i \in DOMAIN api.exception_handlers : IsInstance(exception, api.exception_handlers[i])

============================================================================
